---- MODULE Spec2Model ----
(***************************************************************************)
(* A model of rusty-kv: the RESP command layer (Value::to_command, the     *)
(* CommandExecutor and its handlers), the shared MemoryStore and the       *)
(* per-connection loop of NetworkUtils::accept_connection.                 *)
(*                                                                         *)
(* Representation of Rust Strings.  A String whose characters the code     *)
(* inspects (keys, bulk payloads, command names) is a sequence of          *)
(* one-character strings, <<"k">> or <<":", "5">>.  A String the code only *)
(* builds with format! and compares whole (error messages, hex digests,    *)
(* identities) is a TLA+ string, built with \o.  Join takes the first to   *)
(* the second.                                                             *)
(***************************************************************************)
EXTENDS Integers, Sequences, FiniteSets, TLC

-----------------------------------------------------------------------------
(* Strings as sequences of characters                                      *)

RECURSIVE Join(_)
Join(s) == IF s = <<>> THEN "" ELSE Head(s) \o Join(Tail(s))

CR == "\r"
LF == "\n"
CRLF == <<CR, LF>>

\* str::starts_with
StartsWith(s, p) == Len(s) >= Len(p) /\ SubSeq(s, 1, Len(p)) = p

\* str::ends_with
EndsWith(s, p) == Len(s) >= Len(p) /\ SubSeq(s, Len(s) - Len(p) + 1, Len(s)) = p

\* str::contains
Contains(s, p) == \E i \in 1..(Len(s) - Len(p) + 1) : SubSeq(s, i, i + Len(p) - 1) = p

\* index of the first occurrence of p in s, 0 when there is none (str::find)
Find(s, p) ==
  IF Contains(s, p)
  THEN CHOOSE i \in 1..(Len(s) - Len(p) + 1) :
         /\ SubSeq(s, i, i + Len(p) - 1) = p
         /\ \A j \in 1..(i - 1) : SubSeq(s, j, j + Len(p) - 1) # p
  ELSE 0

\* str::split(sep).collect::<Vec<_>>(): always at least one part
RECURSIVE Split(_, _)
Split(s, sep) ==
  IF Find(s, sep) = 0
  THEN <<s>>
  ELSE <<SubSeq(s, 1, Find(s, sep) - 1)>>
         \o Split(SubSeq(s, Find(s, sep) + Len(sep), Len(s)), sep)

\* str::splitn(2, ch): split at the first occurrence only
SplitN2(s, sep) ==
  IF Find(s, sep) = 0
  THEN <<s>>
  ELSE <<SubSeq(s, 1, Find(s, sep) - 1), SubSeq(s, Find(s, sep) + Len(sep), Len(s))>>

\* str::trim_start_matches(p): removes every leading repetition of p
RECURSIVE TrimStartMatches(_, _)
TrimStartMatches(s, p) ==
  IF StartsWith(s, p) THEN TrimStartMatches(SubSeq(s, Len(p) + 1, Len(s)), p) ELSE s

\* str::trim_end_matches(p): removes every trailing repetition of p
RECURSIVE TrimEndMatches(_, _)
TrimEndMatches(s, p) ==
  IF EndsWith(s, p) THEN TrimEndMatches(SubSeq(s, 1, Len(s) - Len(p)), p) ELSE s

Digits == <<"0", "1", "2", "3", "4", "5", "6", "7", "8", "9">>
IsDigit(ch) == \E d \in 1..10 : Digits[d] = ch
DigitVal(ch) == (CHOOSE d \in 1..10 : Digits[d] = ch) - 1

RECURSIVE DigitsVal(_)
DigitsVal(s) == IF s = <<>> THEN 0 ELSE 10 * DigitsVal(SubSeq(s, 1, Len(s) - 1)) + DigitVal(s[Len(s)])

AllDigits(s) == s # <<>> /\ \A i \in 1..Len(s) : IsDigit(s[i])

\* Leading zeros removed
RECURSIVE StripZeros(_)
StripZeros(s) == IF s # <<>> /\ s[1] = "0" THEN StripZeros(Tail(s)) ELSE s

\* a <= b for two digit strings of one length
RECURSIVE DigitsLeq(_, _)
DigitsLeq(a, b) ==
  IF a = <<>> THEN TRUE
  ELSE IF DigitVal(a[1]) # DigitVal(b[1]) THEN DigitVal(a[1]) < DigitVal(b[1])
  ELSE DigitsLeq(Tail(a), Tail(b))

\* The number a digit string writes is at most the one max writes: the
\* overflow check of str::parse, made on the digits
FitsIn(digits, max) ==
  \/ Len(digits) < Len(max)
  \/ LET d == StripZeros(digits)
     IN Len(d) < Len(max) \/ (Len(d) = Len(max) /\ DigitsLeq(d, max))

\* i64::MAX, the magnitude of i64::MIN, and u64::MAX
I64Max == <<"9", "2", "2", "3", "3", "7", "2", "0", "3", "6", "8", "5", "4", "7", "7", "5", "8", "0", "7">>
I64MinMagnitude == <<"9", "2", "2", "3", "3", "7", "2", "0", "3", "6", "8", "5", "4", "7", "7", "5", "8", "0", "8">>
U64Max == <<"1", "8", "4", "4", "6", "7", "4", "4", "0", "7", "3", "7", "0", "9", "5", "5", "1", "6", "1", "5">>

\* str::parse::<i64>(): an optional sign, at least one digit, and a number
\* within 64 bits.  TLC's integers are 32 bits wide: the digit strings that
\* parse in the model stay far below that.
ParsesI64(s) ==
  /\ s # <<>>
  /\ LET body == IF s[1] \in {"+", "-"} THEN Tail(s) ELSE s
     IN /\ AllDigits(body)
        /\ FitsIn(body, IF s[1] = "-" THEN I64MinMagnitude ELSE I64Max)

ParseI64(s) ==
  IF s[1] = "-" THEN 0 - DigitsVal(Tail(s))
  ELSE IF s[1] = "+" THEN DigitsVal(Tail(s))
  ELSE DigitsVal(s)

\* str::parse::<usize>() / parse::<u64>(): digits with an optional '+'
ParsesUnsigned(s) ==
  /\ s # <<>>
  /\ LET body == IF s[1] = "+" THEN Tail(s) ELSE s
     IN AllDigits(body) /\ FitsIn(body, U64Max)

ParseUnsigned(s) == IF s[1] = "+" THEN DigitsVal(Tail(s)) ELSE DigitsVal(s)

\* i64::to_string for the integers of the model
RECURSIVE NatToChars(_)
NatToChars(n) == IF n < 10 THEN <<Digits[n + 1]>> ELSE NatToChars(n \div 10) \o <<Digits[(n % 10) + 1]>>

IntToChars(i) == IF i < 0 THEN <<"-">> \o NatToChars(0 - i) ELSE NatToChars(i)

Lower == <<"a", "b", "c", "d", "e", "f", "g", "h", "i", "j", "k", "l", "m",
           "n", "o", "p", "q", "r", "s", "t", "u", "v", "w", "x", "y", "z">>
Upper == <<"A", "B", "C", "D", "E", "F", "G", "H", "I", "J", "K", "L", "M",
           "N", "O", "P", "Q", "R", "S", "T", "U", "V", "W", "X", "Y", "Z">>

\* char upper-casing of str::to_uppercase on ASCII text
UpperChar(ch) ==
  IF \E i \in 1..26 : Lower[i] = ch THEN Upper[CHOOSE i \in 1..26 : Lower[i] = ch] ELSE ch

ToUppercase(s) == [i \in 1..Len(s) |-> UpperChar(s[i])]

-----------------------------------------------------------------------------
(* resp::value::Value                                                      *)

Null == [t |-> "Null"]
SimpleString(s) == [t |-> "SimpleString", s |-> s]
BulkString(s) == [t |-> "BulkString", s |-> s]
Array(a) == [t |-> "Array", a |-> a]
Error(s) == [t |-> "Error", s |-> s]
Integer(i) == [t |-> "Integer", i |-> i]
Boolean(b) == [t |-> "Boolean", b |-> b]

\* Option::None of an Option<Value>
NoneV == [t |-> "None"]

\* Option::None of an Option<String>; no digest is this string
NoneS == "<None>"

\* The coercion of CommandExecutor::execute: the String a handler sees for an
\* argument
StringArg(v) ==
  CASE v.t = "SimpleString" -> v.s
    [] v.t = "BulkString" -> v.s
    [] v.t = "Integer" -> IntToChars(v.i)
    [] v.t = "Boolean" -> IF v.b THEN <<"t", "r", "u", "e">> ELSE <<"f", "a", "l", "s", "e">>
    [] OTHER -> <<>>

StringArgs(args) == [i \in 1..Len(args) |-> StringArg(args[i])]

\* The closure of Value::to_command that maps one element after the command
\* name to the argument the handlers get
CommandArg(v) ==
  IF v.t # "BulkString" THEN v
  ELSE IF StartsWith(v.s, <<"$">>) /\ Contains(v.s, CRLF)
    THEN LET parts == Split(v.s, CRLF)
         IN IF Len(parts) >= 2 THEN BulkString(parts[2]) ELSE v
  ELSE IF StartsWith(v.s, <<":">>)
    THEN LET num_str == TrimEndMatches(TrimStartMatches(v.s, <<":">>), CRLF)
         IN IF ParsesI64(num_str) THEN Integer(ParseI64(num_str)) ELSE v
  ELSE IF StartsWith(v.s, <<"#">>)
    THEN LET bool_str == TrimEndMatches(TrimStartMatches(v.s, <<"#">>), CRLF)
         IN IF bool_str = <<"t">> THEN Boolean(TRUE)
            ELSE IF bool_str = <<"f">> THEN Boolean(FALSE)
            ELSE v
  ELSE IF StartsWith(v.s, <<"*">>)
    THEN LET parts == Split(v.s, CRLF)
             len_str == TrimStartMatches(parts[1], <<"*">>)
             array_length == IF ParsesUnsigned(len_str) THEN ParseUnsigned(len_str) ELSE 0
             n == IF array_length < Len(parts) - 1 THEN array_length ELSE Len(parts) - 1
         IN IF Len(parts) >= 2
            THEN Array([i \in 1..n |-> BulkString(parts[i + 1])])
            ELSE v
  ELSE v

\* The command name Value::to_command takes from element 0
CommandName(v) ==
  IF v.t = "BulkString" /\ StartsWith(v.s, <<"$">>) /\ Contains(v.s, CRLF)
  THEN LET parts == Split(v.s, CRLF)
       IN IF Len(parts) >= 2 THEN ToUppercase(parts[2]) ELSE ToUppercase(v.s)
  ELSE ToUppercase(v.s)

NoCommand == [some |-> FALSE, cmd |-> "", args |-> <<>>]

\* Value::to_command: Some((name, args)) of an Array whose element 0 is a
\* BulkString or a SimpleString, None of anything else
to_command(value) ==
  IF value.t # "Array" THEN NoCommand
  ELSE IF value.a = <<>> THEN NoCommand
  ELSE IF value.a[1].t \notin {"BulkString", "SimpleString"} THEN NoCommand
  ELSE [some |-> TRUE,
        cmd |-> Join(CommandName(value.a[1])),
        args |-> [i \in 1..(Len(value.a) - 1) |-> CommandArg(value.a[i + 1])]]

-----------------------------------------------------------------------------
(* The codec: Value::serialize and RespParser.  Bytes are one-character    *)
(* strings; the payloads of the Values the codec is given are sequences of *)
(* them.                                                                   *)

\* The concatenation of a sequence of byte sequences
RECURSIVE Concat(_)
Concat(ss) == IF ss = <<>> THEN <<>> ELSE Head(ss) \o Concat(Tail(ss))

\* Value::serialize
RECURSIVE serialize(_)
serialize(v) ==
  CASE v.t = "Null" -> <<"$", "-", "1">> \o CRLF
    [] v.t = "SimpleString" -> <<"+">> \o v.s \o CRLF
    [] v.t = "BulkString" -> <<"$">> \o NatToChars(Len(v.s)) \o CRLF \o v.s \o CRLF
    [] v.t = "Integer" -> <<":">> \o IntToChars(v.i) \o CRLF
    [] v.t = "Error" -> <<"-">> \o v.s \o CRLF
    [] v.t = "Boolean" -> <<"#", IF v.b THEN "t" ELSE "f">> \o CRLF
    [] v.t = "Array" ->
         <<"*">> \o NatToChars(Len(v.a)) \o CRLF \o Concat([i \in 1..Len(v.a) |-> serialize(v.a[i])])

\* The three results of a parse, and a panic of the parsing task:
\* Ok(Some((value, consumed))), Ok(None), Err(message)
Parsed(v, n) == [k |-> "Some", v |-> v, n |-> n, msg |-> ""]
NeedMoreData == [k |-> "None", v |-> Null, n |-> 0, msg |-> ""]
ParseErr(msg) == [k |-> "Err", v |-> Null, n |-> 0, msg |-> msg]
ParsePanic == [k |-> "Panic", v |-> Null, n |-> 0, msg |-> ""]

\* buf[from..]
SliceFrom(buf, from) == SubSeq(buf, from + 1, Len(buf))

\* read_until_crlf, had it left the LF out of the length
read_until_crlf_short(buffer) ==
  IF Find(buffer, CRLF) = 0 THEN [found |-> FALSE, line |-> <<>>, len |-> 0]
  ELSE [found |-> TRUE, line |-> SubSeq(buffer, 1, Find(buffer, CRLF) - 1),
        len |-> Find(buffer, CRLF)]

\* RespParser::read_until_crlf: the content before the first CR LF and the
\* length up to and including it; found is FALSE for None
read_until_crlf(buffer) ==
  IF Find(buffer, CRLF) = 0 THEN [found |-> FALSE, line |-> <<>>, len |-> 0]
  ELSE [found |-> TRUE, line |-> SubSeq(buffer, 1, Find(buffer, CRLF) - 1),
        len |-> Find(buffer, CRLF) + 1]

\* RespParser::parse_line: the line and the position after its CRLF, or the
\* error "CRLF not found"
parse_line(buf, start) ==
  LET r == read_until_crlf(SliceFrom(buf, start))
  IN [found |-> r.found, line |-> r.line, len |-> start + r.len]

\* RespParser::parse_simple_string and RespParser::parse_error
parse_simple_string(buf) ==
  LET r == parse_line(buf, 1)
  IN IF r.found THEN Parsed(SimpleString(r.line), r.len) ELSE ParseErr("CRLF not found")
parse_error(buf) ==
  LET r == parse_line(buf, 1)
  IN IF r.found THEN Parsed(Error(r.line), r.len) ELSE ParseErr("CRLF not found")

\* parse_integer, had it read a payload that is no number as 0
parse_integer_lenient(buf) ==
  LET r == read_until_crlf(SliceFrom(buf, 1))
  IN IF ~r.found THEN ParseErr("CRLF not found")
     ELSE IF ~ParsesI64(r.line) THEN Parsed(Integer(0), 1 + r.len)
     ELSE Parsed(Integer(ParseI64(r.line)), 1 + r.len)

\* RespParser::parse_integer
parse_integer(buf) ==
  LET r == read_until_crlf(SliceFrom(buf, 1))
  IN IF ~r.found THEN ParseErr("CRLF not found")
     ELSE IF ~ParsesI64(r.line) THEN ParseErr("invalid digit found in string")
     ELSE Parsed(Integer(ParseI64(r.line)), 1 + r.len)

\* RespParser::parse_bulk_string.  For a length -k below -1, len as usize is
\* 2^64 - k: with k <= prefix_len + 3 the sum of total_len overflows (a panic
\* where overflow is checked) or wraps to a small total_len and the slice's
\* end is out of range (a panic as well); with a larger k nothing overflows
\* and total_len is beyond any buffer.  The two bytes after the payload are
\* counted and not looked at
parse_bulk_string(buf) ==
  LET r == read_until_crlf(SliceFrom(buf, 1))
      len == ParseI64(r.line)
      total_len == 1 + r.len + len + 2
  IN IF ~r.found THEN ParseErr("Invalid bulk string length")
     ELSE IF ~ParsesI64(r.line) THEN ParseErr("invalid digit found in string")
     ELSE IF len = -1 THEN Parsed(Null, 1 + r.len)
     ELSE IF len < -1 THEN (IF 0 - len <= r.len + 3 THEN ParsePanic ELSE NeedMoreData)
     ELSE IF Len(buf) < total_len THEN NeedMoreData
     ELSE Parsed(BulkString(SubSeq(buf, 1 + r.len + 1, 1 + r.len + len)), total_len)

\* RespParser::parse_boolean
parse_boolean(buf) ==
  IF Len(buf) < 4 THEN NeedMoreData
  ELSE IF buf[2] \notin {"t", "f"} THEN ParseErr("Invalid boolean value")
  ELSE IF SubSeq(buf, 3, 4) # CRLF THEN ParseErr("Expected CRLF after boolean")
  ELSE Parsed(Boolean(buf[2] = "t"), 4)

\* RespParser::parse_message, and the loop of parse_array over its elements
RECURSIVE parse_message(_), parse_elements(_, _, _, _)
parse_elements(buf, count, total_len, values) ==
  IF count <= 0 THEN Parsed(Array(values), total_len)
  ELSE LET e == parse_message(SliceFrom(buf, total_len))
       IN IF e.k \in {"Err", "Panic"} THEN e
          ELSE IF e.k = "None" THEN ParseErr("Incomplete array element")
          ELSE parse_elements(buf, count - 1, total_len + e.n, Append(values, e.v))

\* RespParser::parse_array
parse_array(buf) ==
  LET r == read_until_crlf(SliceFrom(buf, 1))
      count == ParseI64(r.line)
  IN IF ~r.found THEN ParseErr("Invalid array header")
     ELSE IF ~ParsesI64(r.line) THEN ParseErr("invalid digit found in string")
     ELSE IF count = -1 THEN Parsed(Null, 1 + r.len)
     ELSE parse_elements(buf, count, 1 + r.len, <<>>)

parse_message(buf) ==
  IF buf = <<>> THEN NeedMoreData
  ELSE CASE buf[1] = "+" -> parse_simple_string(buf)
         [] buf[1] = "-" -> parse_error(buf)
         [] buf[1] = ":" -> parse_integer(buf)
         [] buf[1] = "$" -> parse_bulk_string(buf)
         [] buf[1] = "*" -> parse_array(buf)
         [] buf[1] = "#" -> parse_boolean(buf)
         [] OTHER -> ParseErr("Unknown RESP type")

-----------------------------------------------------------------------------
(* Finite maps (HashMap): functions with a finite domain                   *)

EmptyMap == <<>>
MapPut(m, k, v) == [x \in (DOMAIN m) \cup {k} |-> IF x = k THEN v ELSE m[x]]
MapRemove(m, k) == [x \in (DOMAIN m) \ {k} |-> m[x]]

-----------------------------------------------------------------------------
(* Credentials                                                             *)

\* Keccak256 followed by format!("{:x}"): a symbolic digest, free of
\* collisions, that shows what was hashed
Keccak256Hex(s) == "K(" \o s \o ")"

\* The users table after InternalDB::create_user with the default settings:
\* username -> stored password digest
users ==
  [u \in {"root", "user"} |-> Keccak256Hex("password")]

\* The credential hash AUTH derives and WHOAMI recreates
credential_hash(username, db_password) == Keccak256Hex(username \o ":" \o db_password)

-----------------------------------------------------------------------------
(* The state                                                               *)

VARIABLES
  auth_stores,   \* MemoryStore.auth_stores: credential hash -> UserStore.entities
  current_user,  \* MemoryStore.current_user: the one slot behind the Arc that
                 \* every clone of the MemoryStore holds
  cu_writer,     \* the connection that holds current_user's write lock, or 0
  pc,            \* per connection: where its task stands
  req,           \* per connection: the frame read_value returned
  local,         \* per connection: the locals of the running handler
  resp,          \* per connection: the frame the loop is about to write
  cmds,          \* frames received so far, over all connections
  session,       \* history: the identity that the last successful AUTH on
                 \* this connection derived, NoneS before any
  ns,            \* history: <<identity, key>> -> what the commands of the
                 \* connections authenticated as that identity last did to
                 \* key (under NoneS: those that had not authenticated)
  now,           \* the wall clock, in milliseconds since the server started
  erred,         \* history, per connection: the last frame written to it was
                 \* an Error
  codec,         \* the codec on its own: the Values a peer serializes, the
                 \* bytes fed to RespParser so far and what it returned
  wire,          \* per connection: RespHandler.buffer, and the history of the
                 \* Values read_value returned and write_value was given
  db,            \* InternalDB: the rows of the users table and the startups
                 \* the database file has seen
  locks          \* the locks of the MemoryStore and the credential pool: who
                 \* holds what, and each handler's lock operations still to do

vars == <<auth_stores, current_user, cu_writer, pc, req, local, resp, cmds, session, ns, now, erred,
          codec, wire, db, locks>>

\* Connections that may be open at once
NumConns == 2
Conns == 1..NumConns

\* Frames received in one run of Spec, of SpecNamespace and of SpecAuth
MaxCmds == 3
MaxCmdsNamespace == 5
MaxCmdsAuth == 3
MaxCmdsOptions == 3
MaxCmdsDelete == 5
MaxCmdsUtility == 3
MaxCmdsEcho == 2

\* The last instant of the clock, in milliseconds
MaxNow == 1000

NoReq == Null
NoLocal == [user_hash |-> NoneS, create_hash |-> NoneS, i |-> 0]

-----------------------------------------------------------------------------
(* MemoryStore: what get, set and delete do to auth_stores once they hold  *)
(* its lock, as functions of the map                                       *)

Default == <<"d", "e", "f", "a", "u", "l", "t">>
Dot == <<".">>

\* key.contains(".") and the two parts of key.splitn(2, '.')
IsEntityKey(key) == Contains(key, Dot)
EntityName(key) == SplitN2(key, Dot)[1]
EntityKey(key) == SplitN2(key, Dot)[2]

\* The (value, args) pair the default map holds for a key
Entry(value, args) == [value |-> value, args |-> args]

\* entity_get below its authentication check: Ok(Some(v)), Ok(None) or Err
entity_get(stores, user_hash, entity_name, key) ==
  IF user_hash \notin DOMAIN stores THEN [ok |-> FALSE, v |-> NoneV]
  ELSE IF entity_name \notin DOMAIN stores[user_hash] THEN [ok |-> FALSE, v |-> NoneV]
  ELSE IF key \in DOMAIN stores[user_hash][entity_name]
       THEN [ok |-> TRUE, v |-> stores[user_hash][entity_name][key].value]
       ELSE [ok |-> TRUE, v |-> NoneV]

\* MemoryStore::get after get_current_user: the Option<Value> it returns
store_get(stores, user_hash, key) ==
  IF IsEntityKey(key)
  THEN LET r == entity_get(stores, user_hash, EntityName(key), EntityKey(key))
       IN IF r.ok THEN r.v ELSE NoneV
  ELSE IF /\ user_hash \in DOMAIN stores
          /\ Default \in DOMAIN stores[user_hash]
          /\ key \in DOMAIN stores[user_hash][Default]
       THEN stores[user_hash][Default][key].value
       ELSE NoneV

\* The map once entity name of user_hash has lost key
RemoveKey(stores, user_hash, name, key) ==
  IF user_hash \in DOMAIN stores /\ name \in DOMAIN stores[user_hash]
  THEN [stores EXCEPT ![user_hash][name] = MapRemove(@, key)]
  ELSE stores

\* MemoryStore::delete after get_current_user: auth_stores afterwards
store_delete(stores, user_hash, key) ==
  IF IsEntityKey(key)
  THEN RemoveKey(stores, user_hash, EntityName(key), EntityKey(key))
  ELSE RemoveKey(stores, user_hash, Default, key)

\* MemoryStore::set, had it inserted only when the key is absent
store_set_if_absent(stores, user_hash, key, value, args) ==
  LET entities == stores[user_hash]
      map == IF Default \in DOMAIN entities THEN entities[Default] ELSE EmptyMap
  IN IF key \in DOMAIN map THEN stores
     ELSE [stores EXCEPT ![user_hash] = MapPut(entities, Default, MapPut(map, key, Entry(value, args)))]

\* MemoryStore::set, had it put the value into the entry that is there and
\* left that entry's options
store_set_value_only(stores, user_hash, key, value, args) ==
  LET entities == stores[user_hash]
      map == IF Default \in DOMAIN entities THEN entities[Default] ELSE EmptyMap
      kept == IF key \in DOMAIN map THEN map[key].args ELSE args
  IN [stores EXCEPT ![user_hash] = MapPut(entities, Default, MapPut(map, key, Entry(value, kept)))]

\* MemoryStore::set on a key without a dot, after get_current_user: the
\* default map is created when missing and (value, args) replaces the entry
store_set(stores, user_hash, key, value, args) ==
  LET entities == stores[user_hash]
      map == IF Default \in DOMAIN entities THEN entities[Default] ELSE EmptyMap
  IN [stores EXCEPT ![user_hash] = MapPut(entities, Default, MapPut(map, key, Entry(value, args)))]

\* create_entity("hashmap", name) once it holds the locks: entities.insert
\* puts a new empty map under name, whatever was there
create_entity(stores, user_hash, name) ==
  [stores EXCEPT ![user_hash] = MapPut(@, name, EmptyMap)]

\* The last block of entity_add: insert into the entity when it is there
entity_add(stores, user_hash, name, key, value) ==
  IF name \in DOMAIN stores[user_hash]
  THEN [stores EXCEPT ![user_hash][name] = MapPut(@, key, Entry(value, EmptyMap))]
  ELSE stores

\* set_current_user, had it inserted a new UserStore without looking
InsertStoreAlways(stores, hash) == MapPut(stores, hash, EmptyMap)

\* The second half of set_current_user: the UserStore is created if absent
InsertStoreIfAbsent(stores, hash) ==
  IF hash \in DOMAIN stores THEN stores ELSE MapPut(stores, hash, EmptyMap)

-----------------------------------------------------------------------------
(* SetCommand: the options after the value                                 *)

RECURSIVE ParseOptions(_, _, _)
ParseOptions(args, idx, acc) ==
  IF idx > Len(args) THEN [err |-> FALSE, msg |-> "", opts |-> acc]
  ELSE LET arg == Join(ToUppercase(args[idx]))
       IN IF arg \in {"EX", "PX"} /\ idx + 1 <= Len(args)
          THEN IF ParsesUnsigned(args[idx + 1])
               THEN ParseOptions(args, idx + 2,
                      MapPut(acc, IF arg = "EX" THEN "Ex" ELSE "Px", ParseUnsigned(args[idx + 1])))
               ELSE [err |-> TRUE,
                     msg |-> "Invalid expiration value: " \o Join(args[idx + 1]),
                     opts |-> acc]
          ELSE ParseOptions(args, idx + 1, acc)

-----------------------------------------------------------------------------
(* The connection loop and the handlers.  A step is one stretch of a task  *)
(* that touches shared state under one lock: the frame a handler is given, *)
(* its local checks and its reads of current_user (is_authenticated,       *)
(* get_current_user) up to the first access to auth_stores are one step,   *)
(* since current_user, once Some, stays Some and only its last read is     *)
(* kept.                                                                   *)

\* accept_connection's Err arm, had it written the message alone
ErrBare(msg) == Error(msg)

\* accept_connection's match on the handler's result: Ok(response) is written
\* as it is, Err(e) as Value::Error("ERR " + e)
Ok(v) == v
Err(msg) == Error("ERR " \o msg)

\* The handler returns: the loop is about to write frame
Finish(c, frame) ==
  /\ pc' = [pc EXCEPT ![c] = "write"]
  /\ resp' = [resp EXCEPT ![c] = frame]
  /\ local' = [local EXCEPT ![c] = NoLocal]

Goto(c, label, loc) ==
  /\ pc' = [pc EXCEPT ![c] = label]
  /\ local' = [local EXCEPT ![c] = loc]
  /\ UNCHANGED resp

\* History: a SET answered OK, a DEL done with one key, on connection c
\* value is what the handler stored, sent what the client's frame held
\* History: the options and the instant of what the history held for key
\* before connection c's command
NsPrev(c, key) ==
  IF <<session[c], key>> \in DOMAIN ns
  THEN [opts |-> ns[<<session[c], key>>].opts, at |-> ns[<<session[c], key>>].at]
  ELSE [opts |-> EmptyMap, at |-> 0]

NsSet(c, key, value) ==
  MapPut(ns, <<session[c], key>>,
         [st |-> "Val", v |-> value, sent |-> req[c].a[3], by |-> c,
          at |-> now, opts |-> ParseOptions(StringArgs(to_command(req[c]).args), 3, EmptyMap).opts,
          prev |-> NsPrev(c, key)])

NsDel(c, key) ==
  MapPut(ns, <<session[c], key>>,
         [st |-> "Deleted", v |-> NoneV, sent |-> NoneV, by |-> c,
          at |-> now, opts |-> EmptyMap, prev |-> NsPrev(c, key)])

Args(c) == to_command(req[c]).args
SArgs(c) == StringArgs(Args(c))

\* PingCommand, had it asked for authentication as GET does
PingCommandGated(args) ==
  IF current_user = NoneS THEN Err("Authentication required") ELSE Ok(SimpleString("PONG"))

\* PingCommand::execute
PingCommand(args) ==
  IF args = <<>> THEN Ok(SimpleString("PONG")) ELSE Ok(BulkString(args[1]))

\* EchoCommand::execute: the joined message is empty whenever args is
EchoCommand(args) ==
  IF args # <<>> THEN Ok(BulkString(args[1]))
  ELSE Err("ECHO requires at least one argument")

\* HelpCommand::execute
HelpCommand ==
  Ok(BulkString("Available commands:\nPING - Test connection\nECHO <message> - Echo back a message\nGET <key> - Get value for key\nSET <key> <value> - Set key to value\nDEL <key> [<key> ...] - Delete keys\nHELP - Show this help"))

\* GetCommand::execute up to store.get's get_current_user
GetBegin(c, args) ==
  /\ IF current_user = NoneS THEN Finish(c, Err("Authentication required"))
     ELSE IF args = <<>> THEN Finish(c, Err("GET requires a key"))
     ELSE Goto(c, "get_read", [NoLocal EXCEPT !.user_hash = current_user])
  /\ UNCHANGED <<auth_stores, current_user, cu_writer, session, ns>>

\* SetCommand::execute up to store.set's (entity_add's) get_current_user
SetBegin(c, args) ==
  /\ IF current_user = NoneS THEN Finish(c, Err("Authentication required"))
     ELSE IF Len(args) < 2 THEN Finish(c, Err("SET requires a key and a value"))
     ELSE IF ParseOptions(args, 3, EmptyMap).err
       THEN Finish(c, Err(ParseOptions(args, 3, EmptyMap).msg))
     ELSE Goto(c, IF IsEntityKey(args[1]) THEN "entity_exists" ELSE "set_insert",
               [NoLocal EXCEPT !.user_hash = current_user])
  /\ UNCHANGED <<auth_stores, current_user, cu_writer, session, ns>>

\* DeleteCommand::execute before its loop: no authentication check
DelBegin(c, args) ==
  /\ IF args = <<>> THEN Finish(c, Err("DEL requires at least one key"))
     ELSE Goto(c, "del_get", [NoLocal EXCEPT !.i = 1])
  /\ UNCHANGED <<auth_stores, current_user, cu_writer, session, ns>>

\* AuthCommand, had it told a missing user from a wrong password
UserNotFoundTold == "User not found"

\* The messages of AuthCommand::execute's two failures
InvalidPassword == "Invalid username or password"
UserNotFound == "Invalid username or password"

\* set_current_user, had it let go of current_user before it creates the store
AssignCurrentUserUnlocked(c, hash) ==
  /\ current_user' = hash
  /\ cu_writer' = 0

\* The first half of set_current_user: the write lock of current_user is
\* taken and kept, the slot is assigned
AssignCurrentUser(c, hash) ==
  /\ current_user' = hash
  /\ cu_writer' = c

\* AuthCommand's failure, had it logged the connection out
AuthRejectedLoggedOut(c, msg) ==
  /\ Finish(c, Err(msg))
  /\ current_user' = NoneS
  /\ UNCHANGED <<auth_stores, cu_writer, session, ns>>

\* AuthCommand::execute returns Err: nothing of the MemoryStore is touched
AuthRejected(c, msg) ==
  /\ Finish(c, Err(msg))
  /\ UNCHANGED <<auth_stores, current_user, cu_writer, session, ns>>

\* AuthCommand::execute up to the assignment in set_current_user
AuthBegin(c, args) ==
  IF Len(args) < 2
  THEN AuthRejected(c, "AUTH requires username and password")
  ELSE LET username == Join(args[1])
           password_hash == Keccak256Hex(Join(args[2]))
       IN IF username \notin DOMAIN users
          THEN AuthRejected(c, UserNotFound)
          ELSE IF users[username] # password_hash
          THEN AuthRejected(c, InvalidPassword)
          ELSE /\ AssignCurrentUser(c, credential_hash(username, users[username]))
               /\ Goto(c, "auth_store",
                       [NoLocal EXCEPT !.user_hash = credential_hash(username, users[username])])
               /\ UNCHANGED <<auth_stores, session, ns>>

\* WhoAmi::execute: the row whose recreated hash is the current one
WhoAmi ==
  IF current_user = NoneS THEN Err("Not authenticated")
  ELSE IF \E u \in DOMAIN users : credential_hash(u, users[u]) = current_user
    THEN LET username == CHOOSE u \in DOMAIN users : credential_hash(u, users[u]) = current_user
         IN Ok(BulkString("Current user: " \o username \o " (" \o current_user \o ")"))
  ELSE Err("User not found in database")

\* CommandExecutor::execute's catch-all arm, had it left the name out
UnknownCommandUnnamed(cmd) == Err("Unknown command")

\* CommandExecutor::execute's catch-all arm
UnknownCommand(cmd) == Err("Unknown command: " \o cmd)

\* accept_connection's answer to a frame that to_command refuses, had it gone
\* without the prefix
InvalidFormatBare == Error("invalid command format")

\* accept_connection's answer to a frame that to_command refuses
InvalidFormat == Error("ERR invalid command format")

\* CommandExecutor::execute on a frame that to_command accepts
Execute(c, cmd, args) ==
  CASE cmd = "GET" -> GetBegin(c, args)
    [] cmd = "SET" -> SetBegin(c, args)
    [] cmd = "DEL" -> DelBegin(c, args)
    [] cmd = "AUTH" -> AuthBegin(c, args)
    [] OTHER ->
         /\ Finish(c, CASE cmd = "PING" -> PingCommand(args)
                        [] cmd = "HELP" -> HelpCommand
                        [] cmd = "ECHO" -> EchoCommand(args)
                        [] cmd = "WHOAMI" -> WhoAmi
                        [] OTHER -> UnknownCommand(cmd))
         /\ UNCHANGED <<auth_stores, current_user, cu_writer, session, ns>>

-----------------------------------------------------------------------------
(* The frames the clients send                                             *)

Frame(name, args) == Array(<<BulkString(name)>> \o args)

s_root == <<"r", "o", "o", "t">>
s_user == <<"u", "s", "e", "r">>
s_eve == <<"e", "v", "e">>
s_password == <<"p", "a", "s", "s", "w", "o", "r", "d">>
s_secret == <<"s", "e", "c", "r", "e", "t">>

Auth(u, p) == Frame(<<"A", "U", "T", "H">>, <<BulkString(u), BulkString(p)>>)
Get(k) == Frame(<<"G", "E", "T">>, <<BulkString(k)>>)
Set(k, v) == Frame(<<"S", "E", "T">>, <<BulkString(k), v>>)
Del(k) == Frame(<<"D", "E", "L">>, <<BulkString(k)>>)
Whoami == Frame(<<"w", "h", "o", "a", "m", "i">>, <<>>)

k_plain == <<"k">>
k_entity == <<"e", ".", "k">>
v_text == BulkString(<<"v">>)
v_colon == BulkString(<<":", "5">>)

\* root and user with their passwords, root with a wrong one, a stranger
AuthFrames ==
  { Auth(s_root, s_password), Auth(s_user, s_password),
    Auth(s_root, s_secret), Auth(s_eve, s_password) }

Keys == { k_plain, k_entity }

\* The menu of Spec: every handler, plain and dotted keys
Frames ==
  AuthFrames
    \cup { Get(k) : k \in Keys }
    \cup { Set(k_plain, v_text), Set(k_plain, v_colon), Set(k_entity, v_text) }
    \cup { Del(k) : k \in Keys }
    \cup { Whoami }

\* The menu of SpecNamespace: two users and one plain key
NamespaceFrames ==
  { Auth(s_root, s_password), Auth(s_user, s_password),
    Set(k_plain, v_text), Get(k_plain) }

v_other == BulkString(<<"w">>)
s_one == <<"1">>
s_500 == <<"5", "0", "0">>

SetWith(k, v, modifiers) ==
  Frame(<<"S", "E", "T">>, <<BulkString(k), v>> \o [i \in 1..Len(modifiers) |-> BulkString(modifiers[i])])

\* The menu of SpecOptions: SET with each modifier, on one plain key
OptionsFrames ==
  { Auth(s_user, s_password), Set(k_plain, v_text), Get(k_plain),
    SetWith(k_plain, v_other, << <<"N", "X">> >>),
    SetWith(k_plain, v_other, << <<"X", "X">> >>),
    SetWith(k_plain, v_text, << <<"E", "X">>, s_one >>),
    SetWith(k_plain, v_text, << <<"p", "x">>, s_500 >>) }

\* The menu of SpecDelete: two users, and SET, DEL and GET of one plain key
DeleteFrames ==
  { Auth(s_root, s_password), Auth(s_user, s_password),
    Set(k_plain, v_text), Del(k_plain), Get(k_plain) }

Ping == Frame(<<"P", "I", "N", "G">>, <<>>)
PingWith(v) == Frame(<<"p", "i", "n", "g">>, <<v>>)
Echo(v) == Frame(<<"E", "C", "H", "O">>, <<v>>)
EchoNone == Frame(<<"e", "c", "h", "o">>, <<>>)
Help == Frame(<<"H", "E", "L", "P">>, <<>>)
Foo == Frame(<<"f", "o", "o">>, <<v_text>>)

\* Frames that to_command refuses: not an Array, an empty Array, an Array whose
\* first element is neither a BulkString nor a SimpleString
RefusedFrames ==
  { BulkString(<<"P", "I", "N", "G">>), Array(<<>>), Array(<<Integer(1), v_text>>) }

\* The menu of SpecUtility: the commands open to everyone, an unknown command,
\* refused frames, and AUTH and GET for the two session states and the errors
UtilityFrames ==
  { Auth(s_user, s_password), Get(k_plain), Ping, Echo(v_text), EchoNone, Help, Foo }
    \cup RefusedFrames

\* The menu of SpecEcho: ECHO and PING with arguments of every kind
EchoFrames ==
  { Echo(v_text), Echo(v_colon), Echo(Integer(7)), Echo(Boolean(TRUE)), EchoNone,
    Ping, PingWith(v_text) }

\* The menu of SpecAuth: every outcome of AUTH, and the two handlers that
\* take the UserStore of the identity they read
AuthMenuFrames ==
  AuthFrames \cup { Set(k_plain, v_text), Get(k_plain) }

-----------------------------------------------------------------------------
(* The actions                                                             *)

\* The codec before it is given anything
NoResult == [k |-> "Not yet", v |-> Null, n |-> 0, msg |-> ""]
CodecIdle ==
  [v1 |-> Null, v2 |-> Null, raw |-> <<>>, bytes |-> <<>>, decoded |-> NoResult,
   reparsed |-> NoResult, back |-> <<>>, buf |-> <<>>, fed |-> 0, got |-> <<>>, st |-> "run"]

\* A connection's RespHandler::new, and no frame read or written yet
NoWire == [buffer |-> <<>>, inp |-> <<>>, out |-> <<>>, fate |-> "none", seen |-> <<>>]
WireIdle == [c \in Conns |-> NoWire]

\* ---- The credential database (db.rs) ----

\* The settings create_user reads, each with its default
DefaultSettings ==
  [root_user |-> "root", root_password |-> "password", user |-> "user", password |-> "password"]

\* The database file before the first start: no users table
NoDb == [created |-> FALSE, rows |-> {}, boots |-> 0, settings |-> DefaultSettings]

\* CREATE TABLE IF NOT EXISTS users: an existing table keeps its rows
create_table(d) ==
  IF d.created THEN d ELSE [d EXCEPT !.created = TRUE, !.rows = {}]

\* INSERT OR REPLACE: the rows in conflict are removed and the new row is stored
InsertOrReplace(rows, row) ==
  {r \in rows : r.id # row.id /\ r.username # row.username} \cup {row}

\* INSERT INTO users: id is the PRIMARY KEY and username is UNIQUE; a row in
\* conflict fails with "UNIQUE constraint failed" and the table is unchanged
Insert(rows, row) ==
  IF \E r \in rows : r.id = row.id \/ r.username = row.username
  THEN rows
  ELSE rows \cup {row}

\* InternalDB::create_user: the root row, then the regular row; both errors
\* are logged and ignored. id1 and id2 are the two fresh Uuid::new_v4().
create_user(d, settings, id1, id2, time_stamp) ==
  LET root_row == [id |-> id1, username |-> settings.root_user,
                   password |-> Keccak256Hex(settings.root_password),
                   created_at |-> time_stamp, updated_at |-> time_stamp, root_user |-> 1]
      user_row == [id |-> id2, username |-> settings.user,
                   password |-> Keccak256Hex(settings.password),
                   created_at |-> time_stamp, updated_at |-> time_stamp, root_user |-> 0]
  IN  [d EXCEPT !.rows = Insert(Insert(d.rows, root_row), user_row)]

\* InternalDB::new on the database file d: the n-th start of the server
InternalDB_new(d, settings) ==
  LET n == d.boots + 1
      seeded == create_user(create_table(d), settings, 2 * n - 1, 2 * n, n)
  IN  [seeded EXCEPT !.boots = n, !.settings = settings]

\* The database of a running server: started once with the default settings
DbIdle == InternalDB_new(NoDb, DefaultSettings)
\* ---- The locks of the memory store and the credential pool ----

\* Handler tasks running at once, and the connections of the credential pool
\* (r2d2's max_size)
NumTasks == 2
PoolSize == 1
Tasks == 1..NumTasks

\* The identities AUTH can leave in the slot
LockHashes == {credential_hash(u, users[u]) : u \in DOMAIN users}

\* MemoryStore.current_user, MemoryStore.auth_stores, UserStore.entities of the
\* store of h, and the mutex of the entity name of that store
LockOf(kind, h, name) == [kind |-> kind, h |-> h, name |-> name]
CurrentUserLock == LockOf("current_user", "", "")
AuthStoresLock == LockOf("auth_stores", "", "")
EntitiesLock(h) == LockOf("entities", h, "")
EntityLock(h, name) == LockOf("entity", h, name)

\* Outer locks rank lower than inner ones
Rank(lock) ==
  CASE lock.kind = "current_user" -> 1
    [] lock.kind = "auth_stores" -> 2
    [] lock.kind = "entities" -> 3
    [] lock.kind = "entity" -> 4

\* A task between two commands: no local, no guard, no pool connection
IdleTask ==
  [at |-> "idle", cmd |-> "", dotted |-> FALSE, cred |-> NoneS, user_hash |-> NoneS,
   user_hash2 |-> NoneS, entity_exists |-> FALSE, found |-> FALSE, held |-> <<>>, conn |-> FALSE]

\* MemoryStore::new, a full pool and no handler running. ents are the entities
\* (identity, name) that exist and vals those that hold the key of the command.
LocksIdle ==
  [user |-> NoneS, stores |-> {}, ents |-> {}, vals |-> {}, pool |-> PoolSize, cmds |-> 0,
   task |-> [t \in Tasks |-> IdleTask]]

\* The entity a key names: "default" for a plain key, the part before the
\* point for a dotted one
LockedEntity(dotted) == IF dotted THEN "e" ELSE "default"

\* The statements that read the identity slot under a temporary read guard
\* (is_authenticated, get_current_user)
IdentityReads ==
  {"get.rs:34", "set.rs:75", "whoami.rs:33", "whoami.rs:38",
   "memory.rs:203", "memory.rs:222", "memory.rs:251", "memory.rs:271", "memory.rs:291",
   "memory.rs:311", "memory.rs:333", "memory.rs:347", "memory.rs:363", "memory.rs:367",
   "memory.rs:427", "memory.rs:431", "memory.rs:475", "memory.rs:479"}

\* What the statement a task is at waits for: a lock in a mode, a pool
\* connection, or nothing
Wants(L, t) ==
  LET T == L.task[t]
      lock(l, m) == [kind |-> "lock", lock |-> l, mode |-> m]
  IN  CASE T.at \in {"auth.rs:55", "whoami.rs:42"} ->
             [kind |-> "pool", lock |-> CurrentUserLock, mode |-> ""]
        [] T.at \in IdentityReads -> lock(CurrentUserLock, "r")
        [] T.at = "memory.rs:175" -> lock(CurrentUserLock, "w")
        [] T.at \in {"memory.rs:180", "memory.rs:223"} -> lock(AuthStoresLock, "w")
        [] T.at \in {"memory.rs:272", "memory.rs:312", "memory.rs:348", "memory.rs:371",
                     "memory.rs:385", "memory.rs:432", "memory.rs:480"} ->
             lock(AuthStoresLock, "r")
        [] T.at \in {"memory.rs:226", "memory.rs:275", "memory.rs:315", "memory.rs:375",
                     "memory.rs:389", "memory.rs:435", "memory.rs:483"} ->
             lock(EntitiesLock(T.user_hash), "w")
        [] T.at = "memory.rs:351" -> lock(EntitiesLock(T.user_hash2), "w")
        [] T.at \in {"memory.rs:238", "memory.rs:278", "memory.rs:318"} ->
             lock(EntityLock(T.user_hash, "default"), "w")
        [] T.at \in {"memory.rs:402", "memory.rs:448", "memory.rs:497"} ->
             lock(EntityLock(T.user_hash, "e"), "w")
        [] OTHER -> [kind |-> "none", lock |-> CurrentUserLock, mode |-> ""]

\* Task u holds lock l (in mode m)
Holds(L, u, l) == \E i \in 1..Len(L.task[u].held) : L.task[u].held[i].lock = l
HoldsIn(L, u, l, m) ==
  \E i \in 1..Len(L.task[u].held) : L.task[u].held[i].lock = l /\ L.task[u].held[i].mode = m

\* std::sync::RwLock and Mutex: a writer (or a mutex) needs the lock free, a
\* reader needs it free of writers; pool.get() needs an idle connection
CanTake(L, t) ==
  LET w == Wants(L, t)
  IN  CASE w.kind = "pool" -> L.pool > 0
        [] w.kind = "lock" /\ w.mode = "w" -> \A u \in Tasks : ~Holds(L, u, w.lock)
        [] w.kind = "lock" /\ w.mode = "r" -> \A u \in Tasks : ~HoldsIn(L, u, w.lock, "w")
        [] OTHER -> TRUE

\* A read is also kept waiting while a writer queues for the lock, when the
\* lock prefers writers
MustWait(L, t) ==
  LET w == Wants(L, t)
  IN  \/ ~CanTake(L, t)
      \/ /\ w.kind = "lock" /\ w.mode = "r"
         /\ \E u \in Tasks \ {t} :
              LET x == Wants(L, u) IN x.kind = "lock" /\ x.mode = "w" /\ x.lock = w.lock

\* Steps of a task: go to a statement, take the lock waited for, drop every
\* guard, return to the connection loop
MoveTo(L, t, label) == [L EXCEPT !.task[t].at = label]
Take(L, t) ==
  LET w == Wants(L, t)
  IN  [L EXCEPT !.task[t].held = Append(@, [lock |-> w.lock, mode |-> w.mode])]
DropGuards(L, t) == [L EXCEPT !.task[t].held = <<>>]
Return(L, t) == [L EXCEPT !.task[t] = IdleTask]

\* auth.rs execute: pool.get, the query, set_current_user, return
auth_locks(L, t) ==
  LET T == L.task[t]
  IN  CASE T.at = "auth.rs:55" ->
             MoveTo([L EXCEPT !.pool = @ - 1, !.task[t].conn = TRUE], t,
                    IF T.cred = NoneS THEN "auth.rs:84" ELSE "memory.rs:175")
        [] T.at = "memory.rs:175" ->
             MoveTo([Take(L, t) EXCEPT !.user = T.cred], t, "memory.rs:180")
        [] T.at = "memory.rs:180" ->
             MoveTo([Take(L, t) EXCEPT !.stores = @ \cup {T.cred}], t, "memory.rs:186")
        [] T.at = "memory.rs:186" -> MoveTo(DropGuards(L, t), t, "auth.rs:84")
        [] T.at = "auth.rs:84" -> Return([L EXCEPT !.pool = @ + 1], t)

\* whoami.rs execute: is_authenticated, get_current_user, pool.get, return
whoami_locks_kept(L, t) ==
  LET T == L.task[t]
  IN  CASE T.at = "whoami.rs:33" ->
             IF L.user = NoneS THEN Return(L, t) ELSE MoveTo(L, t, "whoami.rs:38")
        [] T.at = "whoami.rs:38" ->
             MoveTo([Take(L, t) EXCEPT !.task[t].user_hash = L.user], t, "whoami.rs:42")
        [] T.at = "whoami.rs:42" ->
             MoveTo([L EXCEPT !.pool = @ - 1, !.task[t].conn = TRUE], t, "whoami.rs:73")
        [] T.at = "whoami.rs:73" -> Return([L EXCEPT !.pool = @ + 1], t)

whoami_locks(L, t) ==
  LET T == L.task[t]
  IN  CASE T.at = "whoami.rs:33" ->
             IF L.user = NoneS THEN Return(L, t) ELSE MoveTo(L, t, "whoami.rs:38")
        [] T.at = "whoami.rs:38" ->
             MoveTo([L EXCEPT !.task[t].user_hash = L.user], t, "whoami.rs:42")
        [] T.at = "whoami.rs:42" ->
             MoveTo([L EXCEPT !.pool = @ - 1, !.task[t].conn = TRUE], t, "whoami.rs:73")
        [] T.at = "whoami.rs:73" -> Return([L EXCEPT !.pool = @ + 1], t)

\* store.get returned: GET answers; DEL calls store.delete when a value was found
get_returns(L, t) ==
  IF L.task[t].cmd = "DEL" /\ L.task[t].found THEN MoveTo(L, t, "memory.rs:291") ELSE Return(L, t)

\* get.rs execute, MemoryStore::get and MemoryStore::entity_get
get_locks(L, t) ==
  LET T == L.task[t]
      name == LockedEntity(T.dotted)
  IN  CASE T.at = "get.rs:34" ->
             IF L.user = NoneS THEN Return(L, t) ELSE MoveTo(L, t, "memory.rs:251")
        [] T.at = "memory.rs:251" ->
             IF L.user = NoneS THEN get_returns(L, t)
             ELSE MoveTo(L, t, IF T.dotted THEN "memory.rs:427" ELSE "memory.rs:271")
        [] T.at = "memory.rs:271" ->
             MoveTo([L EXCEPT !.task[t].user_hash = L.user], t, "memory.rs:272")
        [] T.at = "memory.rs:272" ->
             MoveTo(Take(L, t), t,
                    IF T.user_hash \in L.stores THEN "memory.rs:275" ELSE "memory.rs:284")
        [] T.at = "memory.rs:275" ->
             MoveTo(Take(L, t), t,
                    IF <<T.user_hash, name>> \in L.ents THEN "memory.rs:278" ELSE "memory.rs:284")
        [] T.at = "memory.rs:278" ->
             MoveTo([Take(L, t) EXCEPT !.task[t].found = <<T.user_hash, name>> \in L.vals],
                    t, "memory.rs:284")
        [] T.at = "memory.rs:284" -> get_returns(DropGuards(L, t), t)
        [] T.at = "memory.rs:427" ->
             IF L.user = NoneS THEN get_returns(L, t) ELSE MoveTo(L, t, "memory.rs:431")
        [] T.at = "memory.rs:431" ->
             MoveTo([L EXCEPT !.task[t].user_hash = L.user], t, "memory.rs:432")
        [] T.at = "memory.rs:432" ->
             MoveTo(Take(L, t), t,
                    IF T.user_hash \in L.stores THEN "memory.rs:435" ELSE "memory.rs:471")
        [] T.at = "memory.rs:435" ->
             MoveTo(Take(L, t), t,
                    IF <<T.user_hash, name>> \in L.ents THEN "memory.rs:448" ELSE "memory.rs:471")
        [] T.at = "memory.rs:448" ->
             MoveTo([Take(L, t) EXCEPT !.task[t].found = <<T.user_hash, name>> \in L.vals],
                    t, "memory.rs:471")
        [] T.at = "memory.rs:471" -> get_returns(DropGuards(L, t), t)

\* MemoryStore::delete and MemoryStore::entity_delete
delete_locks(L, t) ==
  LET T == L.task[t]
      name == LockedEntity(T.dotted)
  IN  CASE T.at = "memory.rs:291" ->
             IF L.user = NoneS THEN Return(L, t)
             ELSE MoveTo(L, t, IF T.dotted THEN "memory.rs:475" ELSE "memory.rs:311")
        [] T.at = "memory.rs:311" ->
             MoveTo([L EXCEPT !.task[t].user_hash = L.user], t, "memory.rs:312")
        [] T.at = "memory.rs:312" ->
             MoveTo(Take(L, t), t,
                    IF T.user_hash \in L.stores THEN "memory.rs:315" ELSE "memory.rs:324")
        [] T.at = "memory.rs:315" ->
             MoveTo(Take(L, t), t,
                    IF <<T.user_hash, name>> \in L.ents THEN "memory.rs:318" ELSE "memory.rs:324")
        [] T.at = "memory.rs:318" ->
             MoveTo([Take(L, t) EXCEPT !.vals = @ \ {<<T.user_hash, name>>}], t, "memory.rs:324")
        [] T.at = "memory.rs:324" -> Return(DropGuards(L, t), t)
        [] T.at = "memory.rs:475" ->
             IF L.user = NoneS THEN Return(L, t) ELSE MoveTo(L, t, "memory.rs:479")
        [] T.at = "memory.rs:479" ->
             MoveTo([L EXCEPT !.task[t].user_hash = L.user], t, "memory.rs:480")
        [] T.at = "memory.rs:480" ->
             MoveTo(Take(L, t), t,
                    IF T.user_hash \in L.stores THEN "memory.rs:483" ELSE "memory.rs:535")
        [] T.at = "memory.rs:483" ->
             MoveTo(Take(L, t), t,
                    IF <<T.user_hash, name>> \in L.ents THEN "memory.rs:497" ELSE "memory.rs:535")
        [] T.at = "memory.rs:497" ->
             MoveTo([Take(L, t) EXCEPT !.vals = @ \ {<<T.user_hash, name>>}], t, "memory.rs:535")
        [] T.at = "memory.rs:535" -> Return(DropGuards(L, t), t)

\* set.rs execute and MemoryStore::set for a plain key
set_locks(L, t) ==
  LET T == L.task[t]
  IN  CASE T.at = "set.rs:75" ->
             IF L.user = NoneS THEN Return(L, t) ELSE MoveTo(L, t, "memory.rs:203")
        [] T.at = "memory.rs:203" ->
             IF L.user = NoneS THEN Return(L, t)
             ELSE MoveTo(L, t, IF T.dotted THEN "memory.rs:363" ELSE "memory.rs:222")
        [] T.at = "memory.rs:222" ->
             MoveTo([L EXCEPT !.task[t].user_hash = L.user], t, "memory.rs:223")
        [] T.at = "memory.rs:223" -> MoveTo(Take(L, t), t, "memory.rs:226")
        [] T.at = "memory.rs:226" ->
             MoveTo([Take(L, t) EXCEPT !.ents = @ \cup {<<T.user_hash, "default">>}],
                    t, "memory.rs:238")
        [] T.at = "memory.rs:238" ->
             MoveTo([Take(L, t) EXCEPT !.vals = @ \cup {<<T.user_hash, "default">>}],
                    t, "memory.rs:244")
        [] T.at = "memory.rs:244" -> Return(DropGuards(L, t), t)

\* MemoryStore::entity_add (SET of a dotted key) and MemoryStore::create_entity
entity_add_locks(L, t) ==
  LET T == L.task[t]
  IN  CASE T.at = "memory.rs:363" ->
             IF L.user = NoneS THEN Return(L, t) ELSE MoveTo(L, t, "memory.rs:367")
        [] T.at = "memory.rs:367" ->
             MoveTo([L EXCEPT !.task[t].user_hash = L.user], t, "memory.rs:371")
        [] T.at = "memory.rs:371" ->
             IF T.user_hash \in L.stores THEN MoveTo(Take(L, t), t, "memory.rs:375")
             ELSE Return(L, t)
        [] T.at = "memory.rs:375" ->
             MoveTo([Take(L, t) EXCEPT !.task[t].entity_exists = <<T.user_hash, "e">> \in L.ents],
                    t, "memory.rs:377")
        [] T.at = "memory.rs:377" ->
             MoveTo(DropGuards(L, t), t,
                    IF T.entity_exists THEN "memory.rs:385" ELSE "memory.rs:333")
        [] T.at = "memory.rs:333" ->
             IF L.user = NoneS THEN Return(L, t) ELSE MoveTo(L, t, "memory.rs:347")
        [] T.at = "memory.rs:347" ->
             MoveTo([L EXCEPT !.task[t].user_hash2 = L.user], t, "memory.rs:348")
        [] T.at = "memory.rs:348" ->
             MoveTo(Take(L, t), t,
                    IF T.user_hash2 \in L.stores THEN "memory.rs:351" ELSE "memory.rs:357")
        [] T.at = "memory.rs:351" ->
             MoveTo([Take(L, t) EXCEPT !.ents = @ \cup {<<T.user_hash2, "e">>},
                                       !.vals = @ \ {<<T.user_hash2, "e">>}],
                    t, "memory.rs:357")
        [] T.at = "memory.rs:357" ->
             IF T.user_hash2 \in L.stores THEN MoveTo(DropGuards(L, t), t, "memory.rs:385")
             ELSE Return(DropGuards(L, t), t)
        [] T.at = "memory.rs:385" ->
             IF T.user_hash \in L.stores THEN MoveTo(Take(L, t), t, "memory.rs:389")
             ELSE Return(L, t)
        [] T.at = "memory.rs:389" ->
             MoveTo(Take(L, t), t,
                    IF <<T.user_hash, "e">> \in L.ents THEN "memory.rs:402" ELSE "memory.rs:423")
        [] T.at = "memory.rs:402" ->
             MoveTo([Take(L, t) EXCEPT !.vals = @ \cup {<<T.user_hash, "e">>}],
                    t, "memory.rs:423")
        [] T.at = "memory.rs:423" -> Return(DropGuards(L, t), t)

\* The statements of each function
AuthLabels == {"auth.rs:55", "memory.rs:175", "memory.rs:180", "memory.rs:186", "auth.rs:84"}
WhoamiLabels == {"whoami.rs:33", "whoami.rs:38", "whoami.rs:42", "whoami.rs:73"}
GetLabels ==
  {"get.rs:34", "memory.rs:251", "memory.rs:271", "memory.rs:272", "memory.rs:275",
   "memory.rs:278", "memory.rs:284", "memory.rs:427", "memory.rs:431", "memory.rs:432",
   "memory.rs:435", "memory.rs:448", "memory.rs:471"}
DeleteLabels ==
  {"memory.rs:291", "memory.rs:311", "memory.rs:312", "memory.rs:315", "memory.rs:318",
   "memory.rs:324", "memory.rs:475", "memory.rs:479", "memory.rs:480", "memory.rs:483",
   "memory.rs:497", "memory.rs:535"}
SetLabels ==
  {"set.rs:75", "memory.rs:203", "memory.rs:222", "memory.rs:223", "memory.rs:226",
   "memory.rs:238", "memory.rs:244"}

\* The state after task t has run the statement it is at
Statement(L, t) ==
  LET at == L.task[t].at
  IN  CASE at \in AuthLabels -> auth_locks(L, t)
        [] at \in WhoamiLabels -> whoami_locks(L, t)
        [] at \in GetLabels -> get_locks(L, t)
        [] at \in DeleteLabels -> delete_locks(L, t)
        [] at \in SetLabels -> set_locks(L, t)
        [] OTHER -> entity_add_locks(L, t)


\* MemoryStore::new and the state of every connection before main accepts it
InitServer ==
  /\ auth_stores = EmptyMap
  /\ current_user = NoneS
  /\ cu_writer = 0
  /\ pc = [c \in Conns |-> "closed"]
  /\ req = [c \in Conns |-> NoReq]
  /\ local = [c \in Conns |-> NoLocal]
  /\ resp = [c \in Conns |-> Null]
  /\ cmds = 0
  /\ session = [c \in Conns |-> NoneS]
  /\ ns = EmptyMap
  /\ now = 0
  /\ erred = [c \in Conns |-> FALSE]

Init ==
  /\ InitServer
  /\ codec = CodecIdle
  /\ wire = WireIdle
  /\ db = DbIdle
  /\ locks = LocksIdle

\* main's loop accepts a connection: its task gets a clone of the MemoryStore,
\* which shares both Arcs, and starts at read_value
Accept(c) ==
  /\ pc[c] = "closed"
  /\ pc' = [pc EXCEPT ![c] = "read"]
  /\ session' = [session EXCEPT ![c] = NoneS]
  /\ UNCHANGED <<auth_stores, current_user, cu_writer, req, local, resp, cmds, ns>>
  /\ erred' = [erred EXCEPT ![c] = FALSE]
  /\ UNCHANGED <<now, codec, wire, db, locks>>

\* The peer closes: read_value returns None and the task ends
Close(c) ==
  /\ pc[c] = "read"
  /\ pc' = [pc EXCEPT ![c] = "closed"]
  /\ session' = [session EXCEPT ![c] = NoneS]
  /\ UNCHANGED <<auth_stores, current_user, cu_writer, req, local, resp, cmds, ns>>
  /\ erred' = [erred EXCEPT ![c] = FALSE]
  /\ UNCHANGED <<now, codec, wire, db, locks>>

\* The body of accept_connection's loop for the frame read_value returned
Dispatch(c, f) ==
  /\ req' = [req EXCEPT ![c] = f]
  /\ IF to_command(f).some
     THEN Execute(c, to_command(f).cmd, StringArgs(to_command(f).args))
     ELSE /\ Finish(c, InvalidFormat)
          /\ UNCHANGED <<auth_stores, current_user, cu_writer, session, ns>>

\* read_value returns a frame; to_command; CommandExecutor::execute reads
\* is_authenticated for its log line and runs the handler up to its first
\* access to auth_stores
ReceiveFrom(c, frames, max) ==
  /\ pc[c] = "read"
  /\ cu_writer = 0
  /\ cmds < max
  /\ cmds' = cmds + 1
  /\ \E f \in frames : Dispatch(c, f)
  /\ UNCHANGED <<now, erred, codec, wire, db, locks>>

Receive(c) == ReceiveFrom(c, Frames, MaxCmds)

ReceiveNamespace(c) == ReceiveFrom(c, NamespaceFrames, MaxCmdsNamespace)

ReceiveAuth(c) == ReceiveFrom(c, AuthMenuFrames, MaxCmdsAuth)

ReceiveOptions(c) == ReceiveFrom(c, OptionsFrames, MaxCmdsOptions)

ReceiveDelete(c) == ReceiveFrom(c, DeleteFrames, MaxCmdsDelete)

ReceiveUtility(c) == ReceiveFrom(c, UtilityFrames, MaxCmdsUtility)

ReceiveEcho(c) == ReceiveFrom(c, EchoFrames, MaxCmdsEcho)

\* Half a second passes; no step of the server reads the clock
Tick ==
  /\ now < MaxNow
  /\ now' = now + 500
  /\ UNCHANGED <<auth_stores, current_user, cu_writer, pc, req, local, resp, cmds, session, ns, erred,
               codec, wire, db, locks>>

\* MemoryStore::get under the read lock of auth_stores, and GetCommand's answer
GetRead(c) ==
  /\ pc[c] = "get_read"
  /\ LET key == SArgs(c)[1]
         value == store_get(auth_stores, local[c].user_hash, key)
     IN Finish(c, IF value = NoneV THEN Err("Key " \o Join(key) \o " not found") ELSE Ok(value))
  /\ UNCHANGED <<auth_stores, current_user, cu_writer, req, cmds, session, ns>>
  /\ UNCHANGED <<now, erred, codec, wire, db, locks>>

\* MemoryStore::set under the write lock of auth_stores, and SetCommand's
\* answer; stores.get_mut(&user_hash).unwrap() panics without a UserStore
SetInsert(c) ==
  /\ pc[c] = "set_insert"
  /\ LET key == SArgs(c)[1]
         value == Args(c)[2]
         args == ParseOptions(SArgs(c), 3, EmptyMap).opts
     IN IF local[c].user_hash \in DOMAIN auth_stores
        THEN /\ auth_stores' = store_set(auth_stores, local[c].user_hash, key, value, args)
             /\ ns' = NsSet(c, key, value)
             /\ Finish(c, Ok(SimpleString("OK")))
        ELSE /\ pc' = [pc EXCEPT ![c] = "panicked"]
             /\ UNCHANGED <<auth_stores, ns, resp, local>>
  /\ UNCHANGED <<current_user, cu_writer, req, cmds, session>>
  /\ UNCHANGED <<now, erred, codec, wire, db, locks>>

\* entity_add's first block: does the entity exist?
EntityExists(c) ==
  /\ pc[c] = "entity_exists"
  /\ LET name == EntityName(SArgs(c)[1])
     IN IF local[c].user_hash \notin DOMAIN auth_stores
        THEN Finish(c, Err("User store not found"))
        ELSE Goto(c, IF name \in DOMAIN auth_stores[local[c].user_hash]
                     THEN "entity_add" ELSE "create_user", local[c])
  /\ UNCHANGED <<auth_stores, current_user, cu_writer, req, cmds, session, ns>>
  /\ UNCHANGED <<now, erred, codec, wire, db, locks>>

\* create_entity reads current_user for itself
CreateEntityUser(c) ==
  /\ pc[c] = "create_user"
  /\ cu_writer = 0
  /\ IF current_user = NoneS THEN Finish(c, Err("Authentication required"))
     ELSE Goto(c, "create_insert", [local[c] EXCEPT !.create_hash = current_user])
  /\ UNCHANGED <<auth_stores, current_user, cu_writer, req, cmds, session, ns>>
  /\ UNCHANGED <<now, erred, codec, wire, db, locks>>

\* create_entity inserts the empty map
CreateEntityInsert(c) ==
  /\ pc[c] = "create_insert"
  /\ IF local[c].create_hash \in DOMAIN auth_stores
     THEN /\ auth_stores' = create_entity(auth_stores, local[c].create_hash, EntityName(SArgs(c)[1]))
          /\ Goto(c, "entity_add", local[c])
     ELSE /\ Finish(c, Err("User store not found"))
          /\ UNCHANGED auth_stores
  /\ UNCHANGED <<current_user, cu_writer, req, cmds, session, ns>>
  /\ UNCHANGED <<now, erred, codec, wire, db, locks>>

\* entity_add's last block, and SetCommand's answer
EntityAdd(c) ==
  /\ pc[c] = "entity_add"
  /\ LET key == SArgs(c)[1]
         value == Args(c)[2]
     IN IF local[c].user_hash \in DOMAIN auth_stores
        THEN /\ auth_stores' = entity_add(auth_stores, local[c].user_hash,
                                          EntityName(key), EntityKey(key), value)
             /\ ns' = NsSet(c, key, value)
             /\ Finish(c, Ok(SimpleString("OK")))
        ELSE /\ Finish(c, Err("User store not found"))
             /\ UNCHANGED <<auth_stores, ns>>
  /\ UNCHANGED <<current_user, cu_writer, req, cmds, session>>
  /\ UNCHANGED <<now, erred, codec, wire, db, locks>>

\* DeleteCommand's loop moves to the next key, or returns the count
NextKey(c) ==
  IF local[c].i < Len(SArgs(c))
  THEN Goto(c, "del_get", [NoLocal EXCEPT !.i = local[c].i + 1])
  ELSE Finish(c, Ok(Integer(Len(SArgs(c)))))

\* store.get(key) of the loop: is_authenticated and get_current_user
DelGet(c) ==
  /\ pc[c] = "del_get"
  /\ cu_writer = 0
  /\ IF current_user = NoneS
     THEN NextKey(c) /\ ns' = NsDel(c, SArgs(c)[local[c].i])
     ELSE Goto(c, "del_get_read", [local[c] EXCEPT !.user_hash = current_user]) /\ UNCHANGED ns
  /\ UNCHANGED <<auth_stores, current_user, cu_writer, req, cmds, session>>
  /\ UNCHANGED <<now, erred, codec, wire, db, locks>>

\* store.get(key) of the loop: the lookup
DelGetRead(c) ==
  /\ pc[c] = "del_get_read"
  /\ IF store_get(auth_stores, local[c].user_hash, SArgs(c)[local[c].i]) = NoneV
     THEN NextKey(c) /\ ns' = NsDel(c, SArgs(c)[local[c].i])
     ELSE Goto(c, "del_delete", local[c]) /\ UNCHANGED ns
  /\ UNCHANGED <<auth_stores, current_user, cu_writer, req, cmds, session>>
  /\ UNCHANGED <<now, erred, codec, wire, db, locks>>

\* store.delete(key) of the loop: is_authenticated and get_current_user
DelDelete(c) ==
  /\ pc[c] = "del_delete"
  /\ cu_writer = 0
  /\ Goto(c, "del_delete_remove", [local[c] EXCEPT !.user_hash = current_user])
  /\ UNCHANGED <<auth_stores, current_user, cu_writer, req, cmds, session, ns>>
  /\ UNCHANGED <<now, erred, codec, wire, db, locks>>

\* store.delete(key) of the loop: the removal
DelDeleteRemove(c) ==
  /\ pc[c] = "del_delete_remove"
  /\ auth_stores' = store_delete(auth_stores, local[c].user_hash, SArgs(c)[local[c].i])
  /\ ns' = NsDel(c, SArgs(c)[local[c].i])
  /\ NextKey(c)
  /\ UNCHANGED <<current_user, cu_writer, req, cmds, session>>
  /\ UNCHANGED <<now, erred, codec, wire, db, locks>>

\* The second half of set_current_user, with the write lock of current_user
\* still held: the UserStore is created if absent, both locks are released,
\* and AuthCommand answers OK
AuthStore(c) ==
  /\ pc[c] = "auth_store"
  /\ auth_stores' = InsertStoreIfAbsent(auth_stores, local[c].user_hash)
  /\ cu_writer' = 0
  /\ session' = [session EXCEPT ![c] = local[c].user_hash]
  /\ Finish(c, Ok(SimpleString("OK")))
  /\ UNCHANGED <<current_user, req, cmds, ns>>
  /\ UNCHANGED <<now, erred, codec, wire, db, locks>>

\* write_value, and the loop is back at read_value
Write(c) ==
  /\ pc[c] = "write"
  /\ pc' = [pc EXCEPT ![c] = "read"]
  /\ req' = [req EXCEPT ![c] = NoReq]
  /\ resp' = [resp EXCEPT ![c] = Null]
  /\ UNCHANGED <<auth_stores, current_user, cu_writer, local, cmds, session, ns>>
  /\ erred' = [erred EXCEPT ![c] = resp[c].t = "Error"]
  /\ UNCHANGED <<now, codec, wire, db, locks>>

Next ==
  \E c \in Conns :
    \/ Accept(c)
    \/ Close(c)
    \/ Receive(c)
    \/ GetRead(c)
    \/ SetInsert(c)
    \/ EntityExists(c)
    \/ CreateEntityUser(c)
    \/ CreateEntityInsert(c)
    \/ EntityAdd(c)
    \/ DelGet(c)
    \/ DelGetRead(c)
    \/ DelDelete(c)
    \/ DelDeleteRemove(c)
    \/ AuthStore(c)
    \/ Write(c)

Spec == Init /\ [][Next]_vars

\* The handlers that the frames of NamespaceFrames run
NextNamespace ==
  \E c \in Conns :
    \/ Accept(c)
    \/ Close(c)
    \/ ReceiveNamespace(c)
    \/ GetRead(c)
    \/ SetInsert(c)
    \/ AuthStore(c)
    \/ Write(c)

SpecNamespace == Init /\ [][NextNamespace]_vars

\* The server under the clients of AuthMenuFrames
NextAuth ==
  \E c \in Conns :
    \/ Accept(c)
    \/ Close(c)
    \/ ReceiveAuth(c)
    \/ GetRead(c)
    \/ SetInsert(c)
    \/ AuthStore(c)
    \/ Write(c)

SpecAuth == Init /\ [][NextAuth]_vars

\* The server under the clients of OptionsFrames, with time passing
NextOptions ==
  \/ \E c \in Conns :
       \/ Accept(c)
       \/ Close(c)
       \/ ReceiveOptions(c)
       \/ GetRead(c)
       \/ SetInsert(c)
       \/ AuthStore(c)
       \/ Write(c)
  \/ Tick

SpecOptions == Init /\ [][NextOptions]_vars

\* The server under the clients of DeleteFrames
NextDelete ==
  \E c \in Conns :
    \/ Accept(c)
    \/ Close(c)
    \/ ReceiveDelete(c)
    \/ GetRead(c)
    \/ SetInsert(c)
    \/ DelGet(c)
    \/ DelGetRead(c)
    \/ DelDelete(c)
    \/ DelDeleteRemove(c)
    \/ AuthStore(c)
    \/ Write(c)

SpecDelete == Init /\ [][NextDelete]_vars

\* The server under the clients of UtilityFrames
NextUtility ==
  \E c \in Conns :
    \/ Accept(c)
    \/ Close(c)
    \/ ReceiveUtility(c)
    \/ GetRead(c)
    \/ AuthStore(c)
    \/ Write(c)

SpecUtility == Init /\ [][NextUtility]_vars

\* The server under the clients of EchoFrames
NextEcho ==
  \E c \in Conns :
    \/ Accept(c)
    \/ Close(c)
    \/ ReceiveEcho(c)
    \/ Write(c)

SpecEcho == Init /\ [][NextEcho]_vars

-----------------------------------------------------------------------------
(* The codec on its own: a peer serializes Values and RespParser is given  *)
(* the bytes, whole or as RespHandler::read_value gives them, after each   *)
(* read from the stream                                                    *)

\* The variables of the server
server == <<auth_stores, current_user, cu_writer, pc, req, local, resp, cmds, session, ns, now, erred>>

s_ok == <<"O", "K">>
s_err == <<"E", "R", "R", " ", "x">>
s_get == <<"G", "E", "T">>
s_crlf_inside == <<"a", CR, LF, "b">>
s_ten == <<"h", "e", "l", "l", "o", "w", "o", "r", "l", "d">>

\* Every variant, the empty payloads, a payload that holds CR LF, a length of
\* two digits, negative and several-digit integers, empty and nested Arrays
CodecValues ==
  { Null, SimpleString(<<>>), SimpleString(s_ok), Error(s_err),
    BulkString(<<>>), BulkString(<<"v">>), BulkString(s_crlf_inside), BulkString(s_ten),
    Integer(0), Integer(-7), Integer(120), Boolean(TRUE), Boolean(FALSE),
    Array(<<>>), Array(<<BulkString(s_get), BulkString(<<"k">>)>>),
    Array(<<Array(<<Null, Integer(1)>>), Array(<<>>), Boolean(TRUE)>>) }

\* The Values that follow the first one on the stream
CodecSeconds == { Null, BulkString(<<"v">>), Boolean(FALSE), Array(<<BulkString(s_get), BulkString(<<"k">>)>>) }

\* The null bulk string and the null array as a peer writes them
NullBulk == <<"$", "-", "1">> \o CRLF
NullArray == <<"*", "-", "1">> \o CRLF
NullFrames == { NullBulk, NullArray }

\* Headers with a length below -1, and a bulk string whose payload is not
\* followed by CR LF
NegativeBulk == <<"$", "-", "2">> \o CRLF
FarNegativeBulk == <<"$", "-", "9">> \o CRLF
NegativeArray == <<"*", "-", "2">> \o CRLF
BadTrailer == <<"$", "1">> \o CRLF \o <<"v", "X", "Y">>
HalfTrailer == <<"$", "1">> \o CRLF \o <<"v", CR, "Y">>

RawFrames == NullFrames \cup { NegativeBulk, FarNegativeBulk, NegativeArray, BadTrailer, HalfTrailer }

InitCodec ==
  /\ InitServer
  /\ wire = WireIdle
  /\ db = DbIdle
  /\ locks = LocksIdle
  /\ codec \in { [CodecIdle EXCEPT !.v1 = a, !.v2 = b, !.raw = r] :
                   a \in CodecValues, b \in CodecSeconds, r \in RawFrames }

\* The bytes the peer sends: serialize(V1) ++ serialize(V2)
Stream == serialize(codec.v1) \o serialize(codec.v2)

\* write_value's data = value.serialize()
CodecEncode ==
  /\ codec.bytes = <<>>
  /\ codec' = [codec EXCEPT !.bytes = serialize(codec.v1)]
  /\ UNCHANGED <<server, wire, db, locks>>

\* RespParser::parse_message on a whole frame
CodecDecode ==
  /\ codec.bytes # <<>>
  /\ codec.decoded = NoResult
  /\ codec' = [codec EXCEPT !.decoded = parse_message(codec.bytes)]
  /\ UNCHANGED <<server, wire, db, locks>>

\* A frame of the peer is parsed and the Value is serialized again
CodecReparse ==
  /\ codec.reparsed = NoResult
  /\ LET r == parse_message(codec.raw)
     IN codec' = [codec EXCEPT !.reparsed = r,
                               !.back = IF r.k = "Some" THEN serialize(r.v) ELSE <<>>]
  /\ UNCHANGED <<server, wire, db, locks>>

\* One turn of read_value's loop with one more byte from the stream: the byte
\* joins the buffer, parse_message is called, a parsed Value is taken out of
\* the buffer, an error ends the reading
CodecFeed ==
  /\ codec.st = "run"
  /\ codec.fed < Len(Stream)
  /\ LET buf == Append(codec.buf, Stream[codec.fed + 1])
         r == parse_message(buf)
     IN codec' = [codec EXCEPT
                    !.fed = @ + 1,
                    !.buf = IF r.k = "Some" THEN SliceFrom(buf, r.n) ELSE buf,
                    !.got = IF r.k = "Some" THEN Append(@, [v |-> r.v, n |-> r.n]) ELSE @,
                    !.st = CASE r.k = "Err" -> "err" [] r.k = "Panic" -> "panic" [] OTHER -> "run"]
  /\ UNCHANGED <<server, wire, db, locks>>

NextCodec ==
  \/ CodecEncode
  \/ CodecDecode
  \/ CodecReparse
  \/ CodecFeed

SpecCodec == InitCodec /\ [][NextCodec]_vars

-----------------------------------------------------------------------------
(* The connection loop over the bytes of the stream: read_value appends    *)
(* what a read delivers to the buffer and calls the parser                 *)

\* Frames received, and reads that delivered bytes, in one run of SpecWire
MaxCmdsWire == 3

\* The start of a frame whose rest comes with a later read, and that rest
PartialBoolean == <<"#", "t">>
RestOfBoolean == CRLF

\* A leading byte that is no RESP type, and an Integer that is no integer
UnknownType == <<"?">> \o CRLF
BadInteger == <<":", "x">> \o CRLF
\* An Integer one above i64::MAX
WideInteger == <<":">> \o I64MinMagnitude \o CRLF

\* What one read delivers: a command that fails, one that has two steps, two
\* commands at once, a frame in two pieces, bytes that are no frame, an
\* Integer too wide for 64 bits
WireChunks ==
  { serialize(EchoNone), serialize(Auth(s_user, s_password)),
    serialize(Ping) \o serialize(Echo(v_text)),
    PartialBoolean, RestOfBoolean, UnknownType, BadInteger, WideInteger }

\* main accepts a connection: RespHandler::new
AcceptWire(c) ==
  /\ pc[c] = "closed"
  /\ pc' = [pc EXCEPT ![c] = "read"]
  /\ session' = [session EXCEPT ![c] = NoneS]
  /\ erred' = [erred EXCEPT ![c] = FALSE]
  /\ wire' = [wire EXCEPT ![c] = NoWire]
  /\ UNCHANGED <<auth_stores, current_user, cu_writer, req, local, resp, cmds, ns, now>>
  /\ UNCHANGED <<codec, db, locks>>

\* accept_connection returns: read_value's error leaves through the ? of the
\* loop's condition, Ok(None) ends the loop; the task is over and the stream
\* is dropped
EndTask(c, fate, seen) ==
  /\ pc' = [pc EXCEPT ![c] = "closed"]
  /\ session' = [session EXCEPT ![c] = NoneS]
  /\ erred' = [erred EXCEPT ![c] = FALSE]
  /\ wire' = [wire EXCEPT ![c].buffer = <<>>, ![c].fate = fate, ![c].seen = seen]
  /\ UNCHANGED <<auth_stores, current_user, cu_writer, req, local, resp, ns>>

\* read_value: read_buf delivers a chunk, parse_message is called on the
\* buffer.  A Value is taken out of the buffer and the loop's body runs up to
\* the handler's first access to auth_stores; without a whole frame read_value
\* goes back to read_buf; an error ends the task
ReadBuf(c) ==
  /\ pc[c] = "read"
  /\ cu_writer = 0
  /\ cmds < MaxCmdsWire
  /\ cmds' = cmds + 1
  /\ \E chunk \in WireChunks :
       LET buffer == wire[c].buffer \o chunk
           r == parse_message(buffer)
       IN CASE r.k = "Some" ->
                 /\ wire' = [wire EXCEPT ![c].buffer = SliceFrom(buffer, r.n),
                                         ![c].inp = Append(@, r.v), ![c].seen = buffer]
                 /\ Dispatch(c, r.v)
                 /\ UNCHANGED erred
            [] r.k = "None" ->
                 /\ wire' = [wire EXCEPT ![c].buffer = buffer, ![c].seen = buffer]
                 /\ UNCHANGED <<auth_stores, current_user, cu_writer, pc, req, local, resp,
                                session, ns, erred>>
            [] r.k = "Err" -> EndTask(c, "protocol", buffer)
            [] r.k = "Panic" -> EndTask(c, "panic", buffer)
  /\ UNCHANGED <<now, codec, db, locks>>

\* read_value at the end of the stream: Ok(None) with an empty buffer,
\* Err("Connection closed unexpectedly") with bytes left in it
ReadEof(c) ==
  /\ pc[c] = "read"
  /\ EndTask(c, IF wire[c].buffer = <<>> THEN "eof" ELSE "unexpected", wire[c].seen)
  /\ UNCHANGED <<cmds, now, codec, db, locks>>

\* write_value, had the loop kept the errors to itself
WrittenButErrors(out, frame) == IF frame.t = "Error" THEN out ELSE Append(out, frame)

\* What the peer has been sent once write_value has written frame
Written(out, frame) == Append(out, frame)

\* write_value, and the loop is back at read_value
WriteWire(c) ==
  /\ pc[c] = "write"
  /\ pc' = [pc EXCEPT ![c] = "read"]
  /\ req' = [req EXCEPT ![c] = NoReq]
  /\ resp' = [resp EXCEPT ![c] = Null]
  /\ erred' = [erred EXCEPT ![c] = resp[c].t = "Error"]
  /\ wire' = [wire EXCEPT ![c].out = Written(@, resp[c])]
  /\ UNCHANGED <<auth_stores, current_user, cu_writer, local, cmds, session, ns, now>>
  /\ UNCHANGED <<codec, db, locks>>

NextWire ==
  \E c \in Conns :
    \/ AcceptWire(c)
    \/ ReadBuf(c)
    \/ ReadEof(c)
    \/ AuthStore(c)
    \/ WriteWire(c)

SpecWire == Init /\ [][NextWire]_vars

-----------------------------------------------------------------------------
(* Two connections of one user that write the same key                     *)

\* Frames received in one run of SpecRace
MaxCmdsRace == 5

\* The two connections that race
RaceConns == {1, 2}

SetA == SetWith(k_plain, v_text, << <<"E", "X">>, s_one >>)
SetB == Set(k_plain, v_other)

\* The menu of SpecRace: one user, SET k a with an option, SET k b without
RaceFrames == { Auth(s_user, s_password), SetA, SetB, Get(k_plain) }

ReceiveRace(c) == ReceiveFrom(c, RaceFrames, MaxCmdsRace)

NextRace ==
  \E c \in RaceConns :
    \/ Accept(c)
    \/ Close(c)
    \/ ReceiveRace(c)
    \/ GetRead(c)
    \/ SetInsert(c)
    \/ AuthStore(c)
    \/ Write(c)

SpecRace == Init /\ [][NextRace]_vars

\* Frames received in one run of SpecReplace
MaxCmdsReplace == 4

ReceiveReplace(c) == ReceiveFrom(c, RaceFrames, MaxCmdsReplace)

\* The same clients, with time passing
NextReplace ==
  \/ \E c \in RaceConns :
       \/ Accept(c)
       \/ Close(c)
       \/ ReceiveReplace(c)
       \/ GetRead(c)
       \/ SetInsert(c)
       \/ AuthStore(c)
       \/ Write(c)
  \/ Tick

SpecReplace == Init /\ [][NextReplace]_vars

-----------------------------------------------------------------------------
(* The claims                                                              *)

\* The command and the arguments of the frame connection c is executing
Cmd(c) == to_command(req[c]).cmd

\* get_current_user on connection c's clone of the MemoryStore
CurrentUserOf(c) == current_user

\* Connection c took the step
Acted(c) == pc'[c] # pc[c] \/ local'[c] # local[c]

\* What the history holds for key in the namespace of connection c's session
NsEntry(c, key) ==
  IF <<session[c], key>> \in DOMAIN ns THEN ns[<<session[c], key>>]
  ELSE [st |-> "Never", v |-> NoneV, sent |-> NoneV, by |-> 0, at |-> 0, opts |-> EmptyMap,
        prev |-> [opts |-> EmptyMap, at |-> 0]]

\* Two Values are the same Value: same variant, then same contents
SameValue(a, b) == a.t = b.t /\ a = b

\* No connection that had not authenticated has run SET or DEL on key
OnlyAuthenticatedTouched(key) == <<NoneS, key>> \notin DOMAIN ns

\* The username whose derived identity is connection c's session
SessionUser(c) == CHOOSE u \in DOMAIN users : credential_hash(u, users[u]) = session[c]

IdentityGated == {"GET", "SET", "DEL", "WHOAMI"}

\* C1: on a connection on which no AUTH has succeeded, GET, SET, DEL and WHOAMI
\* are each answered with the error 'ERR Authentication required'.
C1_AuthenticationRequired ==
  \A c \in Conns :
    (pc[c] = "write" /\ session[c] = NoneS /\ Cmd(c) \in IdentityGated)
      => SameValue(resp[c], Error("ERR Authentication required"))

\* C2: the current identity is per connection: the identity a connection's
\* commands run under is the one its own last successful AUTH derived, null on
\* a connection that has not authenticated, whatever other connections did.
C2_IdentityPerConnection ==
  \A c \in Conns :
    (pc[c] # "closed" /\ cu_writer = 0) => CurrentUserOf(c) = session[c]

\* C3: namespaces are isolated between identities: a GET k on a connection
\* authenticated as b is answered 'Key k not found' when no connection
\* authenticated as b has set k, and answered x when this connection's SET k x
\* was the last thing done to k in its namespace, whatever connections
\* authenticated under other identities do.
C3_NamespacesIsolated ==
  [][\A c \in Conns :
       (/\ pc[c] = "get_read" /\ pc'[c] = "write" /\ session[c] # NoneS
        /\ OnlyAuthenticatedTouched(SArgs(c)[1]))
         => LET key == SArgs(c)[1]
                e == NsEntry(c, key)
            IN /\ e.st = "Never" => SameValue(resp'[c], Error("ERR Key " \o Join(key) \o " not found"))
               /\ (e.st = "Val" /\ e.by = c) => SameValue(resp'[c], e.v)]_vars

\* C4: while a connection is Unauthed, GET, SET, DEL and WHOAMI issued on it
\* mutate nothing: every UserStore and every current identity stay as they are.
C4_UnauthedMutatesNothing ==
  [][\A c \in Conns :
       (session[c] = NoneS /\ Cmd(c) \in IdentityGated /\ Acted(c))
         => UNCHANGED <<auth_stores, current_user, session>>]_vars

\* C5: whenever current_user can be read (its write lock is free) it is null or
\* an identity with a UserStore in auth_stores, every identity a handler has
\* read has its UserStore, and no handler panics for a missing one.
C5_IdentityHasStore ==
  /\ cu_writer = 0 => (current_user = NoneS \/ current_user \in DOMAIN auth_stores)
  /\ \A c \in Conns :
       /\ pc[c] # "panicked"
       /\ (pc[c] # "auth_store" /\ local[c].user_hash # NoneS)
            => local[c].user_hash \in DOMAIN auth_stores
       /\ local[c].create_hash # NoneS => local[c].create_hash \in DOMAIN auth_stores

\* C5's case: one connection is between the two halves of set_current_user, the
\* new identity has no UserStore yet, and another handler holds an identity it
\* has read.
C5_Witness ==
  \E c, d \in Conns :
    /\ pc[c] = "auth_store"
    /\ current_user \notin DOMAIN auth_stores
    /\ pc[d] = "set_insert"
    /\ local[d].user_hash # NoneS

\* C6: AUTH user pass with the stored digest of user equal to hex(K(pass)) goes
\* on to set the current identity to hex(K(user:digest)) and answers OK; on its
\* return the identity has a UserStore, which was created only if absent: every
\* UserStore that existed is still there with the same entries.
C6_AuthSuccess ==
  [][\A c \in Conns :
       LET username == Join(StringArgs(to_command(req'[c]).args)[1])
           password == Join(StringArgs(to_command(req'[c]).args)[2])
           matches == /\ username \in DOMAIN users
                      /\ users[username] = Keccak256Hex(password)
           identity == Keccak256Hex(username \o ":" \o users[username])
       IN /\ (pc[c] = "read" /\ to_command(req'[c]).cmd = "AUTH" /\ matches)
               => pc'[c] = "auth_store"
          /\ (pc[c] = "auth_store" /\ pc'[c] = "write")
               => /\ matches
                  /\ SameValue(resp'[c], SimpleString("OK"))
                  /\ current_user' = identity
                  /\ CurrentUserOf(c)' = identity
                  /\ DOMAIN auth_stores' = (DOMAIN auth_stores) \cup {identity}
                  /\ \A h \in DOMAIN auth_stores : auth_stores'[h] = auth_stores[h]]_vars

\* C6's case: AUTH has returned OK for an identity whose UserStore held a key
\* before, and still holds it.
C6_Witness ==
  \E c \in Conns :
    /\ pc[c] = "write"
    /\ Cmd(c) = "AUTH"
    /\ SameValue(resp[c], SimpleString("OK"))
    /\ Default \in DOMAIN auth_stores[session[c]]
    /\ k_plain \in DOMAIN auth_stores[session[c]][Default]

\* AUTH on connection c failed for a wrong password / for an unknown user
WrongPassword(c) ==
  /\ pc[c] = "write" /\ Cmd(c) = "AUTH" /\ Len(SArgs(c)) >= 2
  /\ Join(SArgs(c)[1]) \in DOMAIN users
  /\ users[Join(SArgs(c)[1])] # Keccak256Hex(Join(SArgs(c)[2]))

UnknownUser(c) ==
  /\ pc[c] = "write" /\ Cmd(c) = "AUTH" /\ Len(SArgs(c)) >= 2
  /\ Join(SArgs(c)[1]) \notin DOMAIN users

\* C7: AUTH with a wrong password and AUTH with an unknown username are
\* answered with the same frame, Error 'ERR Invalid username or password'.
C7_SameAuthError ==
  \A c, d \in Conns :
    /\ WrongPassword(c) => SameValue(resp[c], Error("ERR Invalid username or password"))
    /\ UnknownUser(d) => SameValue(resp[d], Error("ERR Invalid username or password"))
    /\ (WrongPassword(c) /\ UnknownUser(d)) => SameValue(resp[c], resp[d])

\* C7's case: one connection is answered for a wrong password while another is
\* answered for an unknown user.
C7_Witness ==
  \E c, d \in Conns : WrongPassword(c) /\ UnknownUser(d)

\* C8: connections authenticated with the same credentials share a namespace:
\* a GET k is answered v when the last thing done to k in the namespace of this
\* connection's identity is a SET k v completed on another connection.
C8_SharedNamespace ==
  [][\A c \in Conns :
       (/\ pc[c] = "get_read" /\ pc'[c] = "write" /\ session[c] # NoneS
        /\ OnlyAuthenticatedTouched(SArgs(c)[1]))
         => LET e == NsEntry(c, SArgs(c)[1])
            IN (e.st = "Val" /\ e.by # c) => SameValue(resp'[c], e.v)]_vars

\* C9: after a successful AUTH as user u on a connection, WHOAMI on it answers
\* BulkString 'Current user: u (<identity>)' with the identity that AUTH
\* derived, whatever other connections do.
C9_WhoamiAfterAuth ==
  \A c \in Conns :
    (pc[c] = "write" /\ Cmd(c) = "WHOAMI" /\ session[c] # NoneS)
      => SameValue(resp[c], BulkString("Current user: " \o SessionUser(c) \o " (" \o session[c] \o ")"))

\* C10: on an authenticated connection, a GET k that follows this connection's
\* SET k v with nothing done to k in between returns v as the typed Value the
\* client sent. Stated for the runs in which this connection's identity is the
\* only one the server has ever authenticated, so that the shared identity slot
\* plays no part.
C10_SetGetRoundTrip ==
  [][\A c \in Conns :
       (/\ pc[c] = "get_read" /\ pc'[c] = "write" /\ session[c] # NoneS
        /\ DOMAIN auth_stores = {session[c]}
        /\ OnlyAuthenticatedTouched(SArgs(c)[1]))
         => LET e == NsEntry(c, SArgs(c)[1])
            IN (e.st = "Val" /\ e.by = c) => SameValue(resp'[c], e.sent)]_vars

\* The default map of the store that connection c's handler works on
HandlerMap(c) ==
  IF /\ local[c].user_hash \in DOMAIN auth_stores
     /\ Default \in DOMAIN auth_stores[local[c].user_hash]
  THEN auth_stores[local[c].user_hash][Default]
  ELSE EmptyMap

\* The frame connection c is executing carries the modifier name after its value
HasModifier(c, name) ==
  \E i \in 3..Len(SArgs(c)) : Join(ToUppercase(SArgs(c)[i])) = name

\* The entry was written with EX n and n seconds have passed, or with PX m and
\* m milliseconds have passed
Expired(e) ==
  \/ "Ex" \in DOMAIN e.opts /\ now - e.at >= 1000 * e.opts["Ex"]
  \/ "Px" \in DOMAIN e.opts /\ now - e.at >= e.opts["Px"]

\* C11: once the time since SET k v EX n reaches n seconds (PX m: m
\* milliseconds), GET k answers 'Key k not found'. Stated for the runs in which
\* one identity only has ever authenticated.
C11_ExpiredNotReturned ==
  [][\A c \in Conns :
       (/\ pc[c] = "get_read" /\ pc'[c] = "write" /\ session[c] # NoneS
        /\ DOMAIN auth_stores = {session[c]}
        /\ OnlyAuthenticatedTouched(SArgs(c)[1]))
         => LET e == NsEntry(c, SArgs(c)[1])
            IN (e.st = "Val" /\ Expired(e))
                 => SameValue(resp'[c], Error("ERR Key " \o Join(SArgs(c)[1]) \o " not found"))]_vars

\* C12: on a connection that runs under the identity it authenticated as,
\* SET k v NX on a key that is present, with no expiry, answers Null and leaves
\* the entry of k as it is.
C12_NxKeepsPresentKey ==
  [][\A c \in Conns :
       (/\ pc[c] = "set_insert" /\ pc'[c] = "write"
        /\ session[c] # NoneS /\ local[c].user_hash = session[c]
        /\ HasModifier(c, "NX")
        /\ SArgs(c)[1] \in DOMAIN HandlerMap(c)
        /\ HandlerMap(c)[SArgs(c)[1]].args = EmptyMap)
         => /\ SameValue(resp'[c], Null)
            /\ auth_stores' = auth_stores]_vars

\* C13: on a connection that runs under the identity it authenticated as,
\* SET k v XX on a key that is absent answers Null and k stays absent.
C13_XxNeedsPresentKey ==
  [][\A c \in Conns :
       (/\ pc[c] = "set_insert" /\ pc'[c] = "write"
        /\ session[c] # NoneS /\ local[c].user_hash = session[c]
        /\ HasModifier(c, "XX")
        /\ SArgs(c)[1] \notin DOMAIN HandlerMap(c))
         => /\ SameValue(resp'[c], Null)
            /\ auth_stores' = auth_stores]_vars

\* C14: on an authenticated connection DEL k1 ... kn answers Integer(n), and a
\* GET k answers 'Key k not found' when the last thing done to k in the
\* namespace of this connection's identity is a DEL.
C14_DelCountsAndRemoves ==
  [][\A c \in Conns :
       /\ (/\ pc'[c] = "write" /\ pc[c] # "write" /\ session[c] # NoneS
           /\ Cmd(c) = "DEL" /\ Len(SArgs(c)) >= 1)
            => SameValue(resp'[c], Integer(Len(SArgs(c))))
       /\ (/\ pc[c] = "get_read" /\ pc'[c] = "write" /\ session[c] # NoneS
           /\ OnlyAuthenticatedTouched(SArgs(c)[1])
           /\ NsEntry(c, SArgs(c)[1]).st = "Deleted")
            => SameValue(resp'[c], Error("ERR Key " \o Join(SArgs(c)[1]) \o " not found"))]_vars

\* C15: on an authenticated connection GET k answers the error 'Key k not
\* found' when k was never set in the namespace of this connection's identity,
\* or was deleted since its last SET.
C15_AbsentKeyNotFound ==
  [][\A c \in Conns :
       (/\ pc[c] = "get_read" /\ pc'[c] = "write" /\ session[c] # NoneS
        /\ OnlyAuthenticatedTouched(SArgs(c)[1])
        /\ NsEntry(c, SArgs(c)[1]).st \in {"Never", "Deleted"})
         => SameValue(resp'[c], Error("ERR Key " \o Join(SArgs(c)[1]) \o " not found"))]_vars

\* The command name to_command takes from frame f ("" when it refuses f)
CmdOf(f) == to_command(f).cmd

UtilityCommands == {"PING", "ECHO", "HELP"}

KnownCommands == {"PING", "HELP", "ECHO", "GET", "SET", "DEL", "AUTH", "WHOAMI"}

\* The frame is one of the two authentication errors
AuthenticationError(v) ==
  v.t = "Error" /\ v.s \in {"ERR Authentication required", "ERR Not authenticated"}

\* Connection c has just been handed a frame and its answer is ready
Answered(c) == pc[c] = "read" /\ pc'[c] = "write"

\* C16: PING, ECHO and HELP are answered without an authentication error,
\* whether or not anyone has authenticated, and change neither the current
\* identity nor any UserStore.
C16_UtilityOpenToAll ==
  [][\A c \in Conns :
       (Answered(c) /\ CmdOf(req'[c]) \in UtilityCommands)
         => /\ ~AuthenticationError(resp'[c])
            /\ UNCHANGED <<auth_stores, current_user, session>>]_vars

\* C16's case: a connection that has not authenticated and one that has are
\* both being answered a PING, ECHO or HELP.
C16_Witness ==
  \E c, d \in Conns :
    /\ pc[c] = "write" /\ Cmd(c) \in UtilityCommands /\ session[c] = NoneS
    /\ pc[d] = "write" /\ Cmd(d) \in UtilityCommands /\ session[d] # NoneS
    /\ ~AuthenticationError(resp[c]) /\ ~AuthenticationError(resp[d])

\* The text ECHO and PING owe for the argument the client sent
Coerced(a) ==
  CASE a.t = "BulkString" -> a.s
    [] a.t = "SimpleString" -> a.s
    [] a.t = "Integer" -> IntToChars(a.i)
    [] a.t = "Boolean" -> IF a.b THEN <<"t", "r", "u", "e">> ELSE <<"f", "a", "l", "s", "e">>
    [] OTHER -> <<>>

\* C17: ECHO with an argument answers BulkString of the first argument as the
\* client sent it (a BulkString s gives exactly BulkString(s), an Integer its
\* decimal text, a Boolean true or false); without arguments it answers the
\* error 'ECHO requires at least one argument'. PING answers PONG without
\* arguments and BulkString of the first argument otherwise.
C17_EchoAndPing ==
  \A c \in Conns :
    /\ (pc[c] = "write" /\ Cmd(c) = "ECHO")
         => IF Len(req[c].a) = 1
            THEN SameValue(resp[c], Error("ERR ECHO requires at least one argument"))
            ELSE SameValue(resp[c], BulkString(Coerced(req[c].a[2])))
    /\ (pc[c] = "write" /\ Cmd(c) = "PING")
         => IF Len(req[c].a) = 1
            THEN SameValue(resp[c], SimpleString("PONG"))
            ELSE SameValue(resp[c], BulkString(Coerced(req[c].a[2])))

\* C18: a command whose upper-cased name is none of the eight known ones is
\* answered 'ERR Unknown command: <NAME>', changes no state, and the
\* connection goes on to read the next frame.
C18_UnknownCommand ==
  [][\A c \in Conns :
       /\ (Answered(c) /\ to_command(req'[c]).some /\ CmdOf(req'[c]) \notin KnownCommands)
            => /\ SameValue(resp'[c], Error("ERR Unknown command: " \o CmdOf(req'[c])))
               /\ UNCHANGED <<auth_stores, current_user, session>>
       /\ (/\ pc[c] = "write" /\ to_command(req[c]).some /\ Cmd(c) \notin KnownCommands
           /\ Acted(c))
            => pc'[c] = "read"]_vars

\* C18's case: foo is being answered on a connection
C18_Witness ==
  \E c \in Conns :
    /\ pc[c] = "write" /\ Cmd(c) = "FOO"
    /\ SameValue(resp[c], Error("ERR Unknown command: FOO"))

\* C19: a frame that is not an Array, or an Array that yields no command name,
\* is answered Error 'ERR invalid command format' with no handler run and no
\* state changed, and the connection goes on to read the next frame.
C19_InvalidFormat ==
  [][\A c \in Conns :
       /\ (Answered(c) /\ ~to_command(req'[c]).some)
            => /\ SameValue(resp'[c], Error("ERR invalid command format"))
               /\ UNCHANGED <<auth_stores, current_user, session, ns>>
       /\ (pc[c] = "write" /\ ~to_command(req[c]).some /\ Acted(c))
            => pc'[c] = "read"]_vars

\* C19's case: a frame that is not an Array is being answered on one
\* connection, an Array without a command name on another
C19_Witness ==
  \E c, d \in Conns :
    /\ pc[c] = "write" /\ req[c].t = "BulkString"
    /\ pc[d] = "write" /\ req[d].t = "Array" /\ ~to_command(req[d]).some

\* The messages the handlers of connection c's frame return as errors
HandlerMessages(c) ==
  { "Authentication required", "Not authenticated", "GET requires a key",
    "SET requires a key and a value", "DEL requires at least one key",
    "AUTH requires username and password", "Invalid username or password",
    "ECHO requires at least one argument", "User not found in database",
    "User store not found", "Unknown command: " \o Cmd(c) }
    \cup (IF Len(SArgs(c)) >= 1 THEN {"Key " \o Join(SArgs(c)[1]) \o " not found"} ELSE {})
    \cup {ParseOptions(SArgs(c), 3, EmptyMap).msg}

C22_CodecRoundTrip ==
  codec.decoded # NoResult
    => /\ codec.decoded.k = "Some"
       /\ SameValue(codec.decoded.v, codec.v1)
       /\ codec.decoded.n = Len(serialize(codec.v1))
       /\ codec.decoded.n = Len(codec.bytes)

\* C22's case: a nested Array has been serialized and parsed
C22_Witness ==
  /\ codec.decoded.k = "Some"
  /\ codec.v1.t = "Array" /\ Len(codec.v1.a) = 3 /\ codec.v1.a[1].t = "Array"
  /\ Len(codec.bytes) > 20

\* C23: the null bulk frame and the null array frame both parse to Null, and
\* each is serialized back to a frame with the leading byte it came with.
C23_NullKeepsLeadingByte ==
  (codec.reparsed # NoResult /\ codec.raw \in NullFrames)
    => /\ codec.reparsed.k = "Some"
       /\ SameValue(codec.reparsed.v, Null)
       /\ codec.back # <<>>
       /\ codec.back[1] = codec.raw[1]

\* C24: fed serialize(V1) ++ serialize(V2) byte by byte, the parser never
\* returns an error: it asks for more data on every proper prefix, leaving the
\* buffer as it is, and yields V1 and then V2, each with the length of its
\* serialization as the consumed count.
C24_IncrementalParsing ==
  LET want == << [v |-> codec.v1, n |-> Len(serialize(codec.v1))],
                 [v |-> codec.v2, n |-> Len(serialize(codec.v2))] >>
  IN /\ codec.st = "run"
     /\ Len(codec.got) <= 2
     /\ \A i \in 1..Len(codec.got) : SameValue(codec.got[i].v, want[i].v) /\ codec.got[i].n = want[i].n
     /\ codec.fed >= want[1].n => Len(codec.got) >= 1
     /\ codec.fed = Len(Stream) => Len(codec.got) = 2

\* The messages of the parser's errors
ParseMessages ==
  { "CRLF not found", "invalid digit found in string", "Invalid bulk string length",
    "Invalid array header", "Incomplete array element", "Invalid boolean value",
    "Expected CRLF after boolean", "Unknown RESP type" }

\* C21: when the parser fails on a connection's bytes, the loop writes one last
\* Error frame that begins with 'ERR ' before the connection is closed.
C21_FinalErrorFrame ==
  [][\A c \in Conns :
       (pc[c] = "read" /\ wire'[c].fate = "protocol" /\ pc'[c] = "closed")
         => /\ Len(wire'[c].out) = Len(wire[c].out) + 1
            /\ wire'[c].out[Len(wire'[c].out)].t = "Error"
            /\ wire'[c].out[Len(wire'[c].out)].s \in {"ERR " \o m : m \in ParseMessages}]_vars

\* The frame r is an answer of the command that the frame f carries
AnswerTo(f, r) ==
  LET cmd == to_command(f).cmd
      args == StringArgs(to_command(f).args)
  IN IF ~to_command(f).some THEN SameValue(r, InvalidFormat)
     ELSE CASE cmd = "PING" -> SameValue(r, PingCommand(args))
            [] cmd = "ECHO" -> SameValue(r, EchoCommand(args))
            [] cmd = "AUTH" ->
                 \/ SameValue(r, SimpleString("OK"))
                 \/ r.t = "Error" /\ r.s = "ERR Invalid username or password"
            [] OTHER -> SameValue(r, UnknownCommand(cmd))

\* C25: on each connection the responses written are as many as the frames
\* read, or one fewer while the last frame read is being handled; the k-th
\* response answers the k-th frame; and a frame is handed to its handler only
\* when every earlier frame has been answered.
C25_SerialInOrder ==
  \A c \in Conns :
    LET inp == wire[c].inp
        out == wire[c].out
    IN /\ Len(out) <= Len(inp) /\ Len(inp) <= Len(out) + 1
       /\ pc[c] \in {"read", "closed"} => Len(out) = Len(inp)
       /\ pc[c] \notin {"read", "closed"} => (Len(inp) = Len(out) + 1 /\ req[c] = inp[Len(inp)])
       /\ pc[c] = "write" => AnswerTo(inp[Len(inp)], resp[c])
       /\ \A k \in 1..Len(out) : AnswerTo(inp[k], out[k])

\* C25's case: one read delivered PING and ECHO v together; PONG was written
\* first, and the answer to ECHO is about to be written second
C25_Witness ==
  \E c \in Conns :
    /\ Len(wire[c].inp) = 2 /\ Len(wire[c].out) = 1
    /\ wire[c].inp[1] = Ping /\ wire[c].inp[2] = Echo(v_text)
    /\ SameValue(wire[c].out[1], SimpleString("PONG"))
    /\ pc[c] = "write" /\ SameValue(resp[c], v_text)

\* The (value, options) pair that the SET frame f asks for
EntryOf(f) ==
  Entry(to_command(f).args[2], ParseOptions(StringArgs(to_command(f).args), 3, EmptyMap).opts)

\* Every entry of every default map is the whole pair of one SET
EntriesWhole ==
  \A h \in DOMAIN auth_stores :
    Default \in DOMAIN auth_stores[h]
      => \A k \in DOMAIN auth_stores[h][Default] :
           auth_stores[h][Default][k] \in {EntryOf(SetA), EntryOf(SetB)}

C29_StorePersists ==
  [][/\ DOMAIN auth_stores \subseteq DOMAIN auth_stores'
     /\ \A h \in DOMAIN auth_stores :
          auth_stores'[h] # auth_stores[h]
            => \E c \in Conns : Acted(c) /\ session[c] = h /\ Cmd(c) \in {"SET", "DEL"}
     /\ \A c \in Conns :
          (/\ pc[c] = "get_read" /\ pc'[c] = "write" /\ session[c] # NoneS
           /\ NsEntry(c, SArgs(c)[1]).st = "Val"
           /\ pc[NsEntry(c, SArgs(c)[1]).by] = "closed")
            => SameValue(resp'[c], NsEntry(c, SArgs(c)[1]).v)]_vars

\* ---- SpecSeed: the server is started again and again on one database file ----

\* Starts of the server on one database file
MaxBoots == 3

\* The configurations an operator may start the server with
SeedSettings ==
  [root_user : {"root", "admin"}, root_password : {"password", "secret"},
   user : {"user", "root"}, password : {"password", "secret"}]

InitSeed ==
  /\ InitServer
  /\ codec = CodecIdle
  /\ wire = WireIdle
  /\ locks = LocksIdle
  /\ db = NoDb

\* main: InternalDB::new(&settings)
Startup ==
  /\ db.boots < MaxBoots
  /\ \E settings \in SeedSettings : db' = InternalDB_new(db, settings)
  /\ UNCHANGED <<auth_stores, current_user, cu_writer, pc, req, local, resp, cmds, session, ns,
                 now, erred, codec, wire, locks>>

NextSeed == Startup

SpecSeed == InitSeed /\ [][NextSeed]_vars

\* C28: seeding is idempotent: a start of the server leaves every row of the
\* users table as it was, whatever password is configured for its username,
\* and the table never holds two rows with the same username.
C28_SeedingIdempotent ==
  /\ [](\A r1, r2 \in db.rows : r1.username = r2.username => r1 = r2)
  /\ [][db.rows \subseteq db'.rows]_vars

\* A second start configured another password for a username already stored;
\* the stored digest is still the first one
C28_Witness ==
  /\ db.boots >= 2
  /\ \E r \in db.rows :
       /\ r.username = db.settings.user
       /\ r.created_at < db.boots
       /\ r.password # Keccak256Hex(db.settings.password)

\* ---- SpecLocks: the handlers at the grain of their lock operations ----

\* Commands handled in one run of SpecLocks
MaxCmdsLocks == 3

\* The first statement of each handler that touches the store or the pool
FirstStatement(cmd) ==
  CASE cmd = "AUTH" -> "auth.rs:55"
    [] cmd = "WHOAMI" -> "whoami.rs:33"
    [] cmd = "GET" -> "get.rs:34"
    [] cmd = "SET" -> "set.rs:75"
    [] cmd = "DEL" -> "memory.rs:251"

\* A connection task starts a handler: AUTH with valid credentials of an
\* identity or with invalid ones, GET, SET or DEL of a plain or a dotted key,
\* WHOAMI
StartHandler(t) ==
  /\ locks.task[t].at = "idle"
  /\ locks.cmds < MaxCmdsLocks
  /\ \E cmd \in {"AUTH", "WHOAMI", "GET", "SET", "DEL"}, dotted \in BOOLEAN,
        cred \in LockHashes \cup {NoneS} :
       /\ cmd = "AUTH" => ~dotted
       /\ cmd # "AUTH" => cred = NoneS
       /\ cmd = "WHOAMI" => ~dotted
       /\ locks' = [locks EXCEPT !.cmds = @ + 1,
                                 !.task[t] = [IdleTask EXCEPT !.at = FirstStatement(cmd),
                                                              !.cmd = cmd, !.dotted = dotted,
                                                              !.cred = cred]]
  /\ UNCHANGED <<auth_stores, current_user, cu_writer, pc, req, local, resp, cmds, session, ns,
                 now, erred, codec, wire, db>>

\* A task runs its next statement once the lock or the connection it waits
\* for can be had
RunStatement(t) ==
  /\ locks.task[t].at # "idle"
  /\ CanTake(locks, t)
  /\ locks' = Statement(locks, t)
  /\ UNCHANGED <<auth_stores, current_user, cu_writer, pc, req, local, resp, cmds, session, ns,
                 now, erred, codec, wire, db>>

NextLocks == \E t \in Tasks : StartHandler(t) \/ RunStatement(t)

SpecLocks == Init /\ [][NextLocks]_vars

\* The ranks of the locks a task holds, in the order it took them
HeldRanks(t) == [i \in 1..Len(locks.task[t].held) |-> Rank(locks.task[t].held[i].lock)]

\* C27: the handlers never deadlock: while a handler is running, some running
\* handler has a statement that need not wait, even with locks that prefer
\* writers; every task takes its locks in the order current-identity,
\* auth_stores, entities, entity, each lock it asks for ranking above all it
\* holds, so it never holds two entity locks; and a task asking for a pool
\* connection holds no lock of the memory store.
C27_NoDeadlock ==
  /\ (\E t \in Tasks : locks.task[t].at # "idle")
       => \E t \in Tasks : locks.task[t].at # "idle" /\ ~MustWait(locks, t)
  /\ \A t \in Tasks :
       /\ \A i, j \in 1..Len(locks.task[t].held) : i < j => HeldRanks(t)[i] < HeldRanks(t)[j]
       /\ Wants(locks, t).kind = "lock"
            => \A i \in 1..Len(locks.task[t].held) : HeldRanks(t)[i] < Rank(Wants(locks, t).lock)
       /\ Wants(locks, t).kind = "pool" => locks.task[t].held = <<>>

\* AUTH holds a pool connection and the identity slot and waits for
\* auth_stores, which a SET holds together with the entities lock and the
\* entity lock of its store
C27_Witness ==
  \E a, s \in Tasks :
    /\ locks.task[a].at = "memory.rs:180" /\ locks.task[a].conn
    /\ Holds(locks, a, CurrentUserLock)
    /\ ~CanTake(locks, a)
    /\ locks.task[s].at = "memory.rs:244"
    /\ Len(locks.task[s].held) = 3

\* ---- SpecModifiers: SET with well-formed and malformed modifiers ----

\* Frames received in one run of SpecModifiers
MaxCmdsModifiers == 4

s_abc == <<"a", "b", "c">>
s_colon_one == <<":", "1">>
\* u64::MAX + 1
s_too_big == <<"1", "8", "4", "4", "6", "7", "4", "4", "0", "7", "3", "7", "0", "9", "5", "5", "1", "6", "1", "6">>

\* The menu of SpecModifiers: one user, one plain key, SET with no modifier,
\* with an unknown one, with EX in mixed case and a number, and with EX or PX
\* followed by text that is no u64: letters, a number one above u64::MAX, and
\* a number behind a colon
ModifierFrames ==
  { Auth(s_user, s_password), Set(k_plain, v_text),
    SetWith(k_plain, v_other, << <<"f", "o", "o">> >>),
    SetWith(k_plain, v_other, << <<"e", "X">>, s_one >>),
    SetWith(k_plain, v_other, << <<"e", "x">>, s_abc >>),
    SetWith(k_plain, v_other, << <<"P", "X">>, s_too_big >>),
    SetWith(k_plain, v_other, << <<"E", "X">>, s_colon_one >>) }

ReceiveModifiers(c) == ReceiveFrom(c, ModifierFrames, MaxCmdsModifiers)

NextModifiers ==
  \E c \in Conns :
    \/ Accept(c)
    \/ Close(c)
    \/ ReceiveModifiers(c)
    \/ SetInsert(c)
    \/ AuthStore(c)
    \/ Write(c)

SpecModifiers == Init /\ [][NextModifiers]_vars

\* The modifiers of a SET frame as the client wrote them: the text of the
\* elements after the value
WireModifiers(f) == [i \in 1..(Len(f.a) - 3) |-> f.a[i + 3].s]

\* What the modifiers m ask for, read from position idx on: EX or PX in any
\* case takes the next text as its number, bad when that text is no u64; any
\* other word asks for nothing
RECURSIVE AskedOptions(_, _, _)
AskedOptions(m, idx, acc) ==
  IF idx > Len(m) THEN [bad |-> FALSE, opts |-> acc]
  ELSE IF Join(ToUppercase(m[idx])) \in {"EX", "PX"} /\ idx < Len(m)
    THEN IF ParsesUnsigned(m[idx + 1])
         THEN AskedOptions(m, idx + 2,
                MapPut(acc, IF Join(ToUppercase(m[idx])) = "EX" THEN "Ex" ELSE "Px",
                       ParseUnsigned(m[idx + 1])))
         ELSE [bad |-> TRUE, opts |-> acc]
  ELSE AskedOptions(m, idx + 1, acc)

\* C31: a SET whose EX or PX is followed by text that is no u64 is answered
\* an Error and no store changes, then or later; a SET on an authenticated
\* connection whose modifiers are well formed, in any case and with unknown
\* words among them, is not refused and stores the options it asked for.
C31_BadExpiryRejected ==
  [][\A c \in Conns :
       /\ (/\ pc[c] = "read" /\ req'[c] # NoReq /\ req'[c].t = "Array"
           /\ to_command(req'[c]).cmd = "SET" /\ Len(req'[c].a) >= 3)
            => IF AskedOptions(WireModifiers(req'[c]), 1, EmptyMap).bad
               THEN /\ pc'[c] = "write" /\ resp'[c].t = "Error"
                    /\ auth_stores' = auth_stores
               ELSE current_user # NoneS => pc'[c] = "set_insert"
       /\ (pc[c] = "set_insert" /\ pc'[c] = "write")
            => auth_stores'[local[c].user_hash][Default][SArgs(c)[1]].args
                 = AskedOptions(WireModifiers(req[c]), 1, EmptyMap).opts]_vars

\* C32: a whole request frame that has been received is answered without
\* further bytes from the peer: the loop never waits in read_buf while its
\* buffer holds a whole frame, and the stream never ends on a task whose
\* buffer holds a whole frame that was not handed to a handler.
C32_ReceivedFramesAnswered ==
  /\ [](\A c \in Conns : pc[c] = "read" => parse_message(wire[c].buffer).k # "Some")
  /\ [][\A c \in Conns :
          (pc[c] = "read" /\ pc'[c] = "closed" /\ wire'[c].fate \in {"eof", "unexpected"})
            => parse_message(wire[c].buffer).k # "Some"]_vars

\* C33: at the end of the stream read_value closes cleanly exactly when the
\* buffer is empty and fails with 'Connection closed unexpectedly' exactly when
\* the buffer holds the bytes of a frame that is not whole; and when a frame
\* is parsed, the bytes taken out of the buffer are exactly the bytes of that
\* frame.
C33_EndOfStream ==
  [][\A c \in Conns :
       /\ (pc[c] = "read" /\ pc'[c] = "closed" /\ wire'[c].fate \in {"eof", "unexpected"})
            => /\ wire'[c].fate = "eof" <=> wire[c].buffer = <<>>
               /\ wire'[c].fate = "unexpected"
                    <=> (wire[c].buffer # <<>> /\ parse_message(wire[c].buffer).k = "None")
       /\ (pc[c] = "read" /\ Len(wire'[c].inp) = Len(wire[c].inp) + 1)
            => LET seen == wire'[c].seen
                   r == parse_message(seen)
               IN /\ r.k = "Some"
                  /\ seen = SubSeq(seen, 1, r.n) \o wire'[c].buffer
                  /\ parse_message(SubSeq(seen, 1, r.n)).k = "Some"
                  /\ parse_message(SubSeq(seen, 1, r.n)).n = r.n
                  /\ SameValue(parse_message(SubSeq(seen, 1, r.n)).v, wire'[c].inp[Len(wire'[c].inp)])]_vars

\* The leading bytes of the RESP types
TypeBytes == {"+", "-", ":", "$", "*", "#"}

\* A buffer that begins with a byte of no RESP type, or with an Integer frame
\* whose payload is no signed 64-bit integer
HardError(buf) ==
  /\ buf # <<>>
  /\ \/ buf[1] \notin TypeBytes
     \/ /\ buf[1] = ":"
        /\ Find(buf, CRLF) # 0
        /\ ~ParsesI64(SubSeq(buf, 2, Find(buf, CRLF) - 1))

\* C37: when read_value parses a buffer that begins with a byte of no RESP
\* type, or with an Integer frame whose payload is no signed 64-bit integer,
\* the connection task ends with a protocol error: no frame is handed to a
\* handler, nothing is written, and no store, identity or session changes.
C37_HardParseError ==
  [][\A c \in Conns :
       (pc[c] = "read" /\ cmds' # cmds /\ wire'[c] # wire[c] /\ HardError(wire'[c].seen))
         => /\ pc'[c] = "closed" /\ wire'[c].fate = "protocol"
            /\ wire'[c].inp = wire[c].inp /\ wire'[c].out = wire[c].out
            /\ req' = req /\ resp' = resp
            /\ auth_stores' = auth_stores /\ current_user' = current_user /\ ns' = ns
            /\ \A d \in Conns \ {c} : session'[d] = session[d] /\ pc'[d] = pc[d]]_vars

\* C37's case: after AUTH was answered on it, a connection read ':x\r\n' and
\* its task ended with a protocol error, the store AUTH created still there
C37_Witness ==
  \E c \in Conns :
    /\ pc[c] = "closed" /\ wire[c].fate = "protocol"
    /\ wire[c].seen = BadInteger
    /\ Len(wire[c].out) = 1 /\ Len(wire[c].inp) = 1
    /\ auth_stores # EmptyMap


-----------------------------------------------------------------------------
(* The headers and trailers of the frames a peer writes by hand             *)

\* The length a bulk string's or an array's header announces
HeaderLength(buf) == ParseI64(read_until_crlf(SliceFrom(buf, 1)).line)

\* A bulk string or array header whose length is below -1
NegativeHeader(buf) ==
  /\ buf # <<>> /\ buf[1] \in {"$", "*"}
  /\ read_until_crlf(SliceFrom(buf, 1)).found
  /\ ParsesI64(read_until_crlf(SliceFrom(buf, 1)).line)
  /\ HeaderLength(buf) < -1

\* C36: a frame of the peer is parsed as a bulk string only if the two bytes
\* that follow its payload, the last two of the bytes consumed, are CR LF.
C36_BulkTrailerChecked ==
  (codec.reparsed # NoResult /\ codec.raw[1] = "$"
     /\ codec.reparsed.k = "Some" /\ codec.reparsed.v.t = "BulkString")
    => /\ codec.reparsed.n = 1 + read_until_crlf(SliceFrom(codec.raw, 1)).len + HeaderLength(codec.raw) + 2
       /\ codec.raw[codec.reparsed.n - 1] = CR
       /\ codec.raw[codec.reparsed.n] = LF

\* C38: a bulk string or array header with a length below -1 is answered by
\* the parser with an error: no panic, no wait for more data, no Value.
C38_NegativeLengthRejected ==
  (codec.reparsed # NoResult /\ NegativeHeader(codec.raw))
    => codec.reparsed.k = "Err"


-----------------------------------------------------------------------------
(* AUTH that fails, on connections that are and are not authenticated      *)

\* Frames received in one run of SpecAuthFail
MaxCmdsAuthFail == 3

\* AUTH with a username and nothing else
AuthShort == Frame(<<"A", "U", "T", "H">>, <<BulkString(s_root)>>)

\* The menu of SpecAuthFail: AUTH that succeeds, AUTH with a wrong password,
\* for a stranger and with one argument, and a SET that fills the UserStore
AuthFailFrames ==
  { Auth(s_root, s_password), Auth(s_root, s_secret), Auth(s_eve, s_password),
    AuthShort, Set(k_plain, v_text) }

ReceiveAuthFail(c) == ReceiveFrom(c, AuthFailFrames, MaxCmdsAuthFail)

NextAuthFail ==
  \E c \in Conns :
    \/ Accept(c)
    \/ Close(c)
    \/ ReceiveAuthFail(c)
    \/ SetInsert(c)
    \/ AuthStore(c)
    \/ Write(c)

SpecAuthFail == Init /\ [][NextAuthFail]_vars

\* The frame is an AUTH that AuthCommand refuses: fewer than two arguments, a
\* username without a row, a password whose digest is not the stored one
FailingAuth(f) ==
  /\ to_command(f).some /\ to_command(f).cmd = "AUTH"
  /\ LET args == StringArgs(to_command(f).args)
     IN \/ Len(args) < 2
        \/ Join(args[1]) \notin DOMAIN users
        \/ users[Join(args[1])] # Keccak256Hex(Join(args[2]))

\* C35: the step in which a connection's AUTH fails (fewer than two arguments,
\* unknown user, wrong password) returns an error and leaves the current
\* identity, as the store holds it and as the connection reads it, and every
\* UserStore as they were: authenticated as X before, authenticated as X after,
\* unauthenticated before, unauthenticated after.
C35_FailedAuthChangesNothing ==
  [][\A c \in Conns :
       (pc[c] = "read" /\ pc'[c] # "read" /\ FailingAuth(req'[c]))
         => /\ pc'[c] = "write" /\ resp'[c].t = "Error"
            /\ current_user' = current_user
            /\ CurrentUserOf(c)' = CurrentUserOf(c)
            /\ cu_writer' = cu_writer
            /\ auth_stores' = auth_stores
            /\ session' = session
            /\ ns' = ns]_vars

\* C35's case: a connection authenticated as root, with a key in root's
\* UserStore, has been refused an AUTH with a wrong password and the identity
\* is still root's
C35_Witness ==
  \E c \in Conns :
    /\ WrongPassword(c)
    /\ resp[c].t = "Error"
    /\ session[c] = credential_hash("root", users["root"])
    /\ current_user = session[c]
    /\ current_user \in DOMAIN auth_stores
    /\ Default \in DOMAIN auth_stores[current_user]
    /\ k_plain \in DOMAIN auth_stores[current_user][Default]


-----------------------------------------------------------------------------
(* Keys with and without a dot in one namespace                            *)

\* Frames received in one run of SpecKeys
MaxCmdsKeys == 4

\* A dotted key whose entity is the one MemoryStore::set keeps plain keys in
k_alias == Default \o Dot \o k_plain

\* A second key of the entity of k_entity
k_second == <<"e", ".", "j">>

KeysOfKeys == { k_plain, k_alias, k_entity, k_second }

\* The menu of SpecKeys: one user; SET, GET and DEL on a plain key, on two
\* keys of a named entity and on default.k
KeysFrames ==
  { Auth(s_root, s_password),
    Set(k_plain, v_text), Set(k_alias, v_other), Set(k_entity, v_text), Set(k_second, v_other),
    Get(k_plain), Get(k_entity), Del(k_alias), Del(k_entity) }

ReceiveKeys(c) == ReceiveFrom(c, KeysFrames, MaxCmdsKeys)

NextKeys ==
  \E c \in Conns :
    \/ Accept(c)
    \/ Close(c)
    \/ ReceiveKeys(c)
    \/ GetRead(c)
    \/ SetInsert(c)
    \/ EntityExists(c)
    \/ CreateEntityUser(c)
    \/ CreateEntityInsert(c)
    \/ EntityAdd(c)
    \/ DelGet(c)
    \/ DelGetRead(c)
    \/ DelDelete(c)
    \/ DelDeleteRemove(c)
    \/ AuthStore(c)
    \/ Write(c)

SpecKeys == Init /\ [][NextKeys]_vars

\* The key the SET or DEL of connection c is at
KeyAt(c) == IF Cmd(c) = "DEL" THEN SArgs(c)[local[c].i] ELSE SArgs(c)[1]

\* C34: a step of SET or DEL on key k1 leaves what GET returns for every
\* other key k2 of the menu, dotted or not, in every namespace, as it was.
C34_KeyIndependence ==
  [][\A c \in Conns :
       (pc[c] \in {"set_insert", "create_insert", "entity_add", "del_delete_remove"} /\ Acted(c))
         => \A k2 \in KeysOfKeys \ {KeyAt(c)} :
              \A h \in DOMAIN auth_stores :
                store_get(auth_stores', h, k2) = store_get(auth_stores, h, k2)]_vars

====
